---- MODULE Spec2Model ----
(***************************************************************************)
(* A model of mini-redis (scotro/mini-redis): the four in-memory stores,   *)
(* the command handlers of the server, the per-connection transaction      *)
(* engine with its version tracker, and the snapshot writer.               *)
(*                                                                         *)
(* Go maps are functions whose DOMAIN is the set of keys present; a Go     *)
(* method that returns a value and changes the receiver is an operator     *)
(* that returns a record [data |-> the receiver afterwards, ret |-> ...].  *)
(***************************************************************************)
EXTENDS Integers, Sequences, FiniteSets, TLC

VARIABLES
    strData,    \* memoryStore.data: key -> entry [value, expiresAt]
    listData,   \* memoryListStore.data: key -> sequence of strings
    hashData,   \* MemoryHashStore.hashes: key -> (field -> value)
    setData,    \* MemorySetStore.data: key -> set of members
    now,        \* time.Now(), in clock ticks (Second ticks to a second)
    reply,      \* the reply the server wrote last (a resp.Value)
    pc,         \* per connection: the handler it is in and the step it is at
    tx,         \* per connection: its Transaction [inMulti, queue, watching]
    versions,   \* MemoryVersionTracker.versions: key -> int64
    invoked,    \* the commands the executor was invoked on by the last step
    dirty,      \* history: per connection, the keys it watches that were
                \* mutated since it watched them
    files,      \* the file system: the snapshot path and its ".tmp" sibling
    mu,         \* Manager.mu: the writer that holds it, or "-"
    saving,     \* Manager.saving
    saveDone,   \* Manager.saveDone: the channel (its index in chans), 0 for nil
    writer,     \* per caller of Save or BackgroundSave: its position
    result,     \* the last Manager call that returned, and its error
    chans,      \* the channels BackgroundSave has made: the buffer of each
    waiter,     \* per caller of WaitForSave: its position, channel and result
    saved,      \* history: the stores and the clock at the createSnapshot
                \* of the Save that succeeded last, or at the return of the
                \* last BackgroundSave
    subs,       \* PubSub: channels, patterns, subChannels, subPatterns
    Messages,   \* per Subscriber: the content of its Messages channel
    quit,       \* Server.quit is closed
    listener,   \* Server.listener is open
    wg,         \* Server.wg: the WaitGroup's counter
    stopping,   \* the caller of Server.Stop: its position
    conn,       \* per client: its connection and its handleConnection task
    wire,       \* RESP: the bytes in the reader
    parsed,     \* RESP: what Parse returned on wire: [value, err, pos]
    source,     \* RESP: the Value that was serialized into wire
    encoded,    \* RESP: what Serialize returned on the parsed value
    stopped,    \* memoryStore.stopped
    doneClosed, \* memoryStore.done is closed
    closer,     \* per caller of Close: its position, and what came of it
    sweeper,    \* the cleanupLoop goroutine: its position, and the sweeps it made
    tick,       \* a tick is waiting in ticker.C
    setMu,      \* MemorySetStore.mu: its readers and its writer
    sinter,     \* per caller of SInter: its position, locals and result
    mutator,    \* per caller of SAdd or SRem: its position and arguments
    shadow,     \* a second memoryStore, given the same calls but never swept
    published,  \* history: the number of publications the publisher has made
    yielded,    \* history: per Subscriber, the number of the publication
                \* whose message its Messages channel yielded last
    confirmed,  \* history: per Subscriber, the count in the confirmation
                \* that was put on its Messages channel last
    stale,      \* history: "yes" when the snapshot the background save holds
                \* was gathered before the createSnapshot of a Save that has
                \* returned nil since, "pending" while that Save is writing
    txMu,       \* Transaction.mu of connection A: its holder, or "-"
    execPos,    \* the Exec call of connection A: its position in Exec
    caller      \* per caller of a method of A's Transaction: its position

storeVars == <<strData, listData, hashData, setData>>
txVars == <<tx, versions, invoked, dirty>>
snapVars == <<files, mu, saving, saveDone, writer, result>>
waitVars == <<chans, waiter, saved>>
psVars == <<subs, Messages>>
srvVars == <<quit, listener, wg, stopping, conn>>
respVars == <<wire, parsed, source, encoded>>
sweepVars == <<stopped, doneClosed, closer, sweeper, tick>>
setLockVars == <<setMu, sinter, mutator>>
orderVars == <<published, yielded>>
reentryVars == <<txMu, execPos, caller>>
moreVars == <<orderVars, confirmed, stale, reentryVars>>
\* The variables after srvVars but stale.
notStale == <<respVars, sweepVars, setLockVars, shadow, orderVars, confirmed, reentryVars>>
restVars == <<respVars, sweepVars, setLockVars, shadow, moreVars>>
extVars == <<waitVars, psVars, srvVars, restVars>>
vars == <<storeVars, now, reply, pc, txVars, snapVars, extVars>>

(***************************************************************************)
(* Input domains and bounds.                                               *)
(***************************************************************************)
Conns == {"A", "B"}     \* connections
Keys == {"x", "y"}
Vals == {"a", "b"}      \* string values, and elements in SpecStoreOps
Elems == {"a"}          \* list elements, set members and hash values in Spec
Fields == {"f"}

MaxListLen == 2     \* lists grow to at most this many elements
MaxArgs == 2        \* values, members or fields passed to one call
Second == 2         \* clock ticks in a second (time.Second)
StartTime == 2      \* the clock at the start
MaxTime == 5        \* the clock stops advancing here
MaxQueue == 2       \* commands queued in one transaction
MaxVersion == 2     \* IncrementVersion stops here
MaxSaves == 2       \* BackgroundSave starts at most this many saves
MessageBufferSize == 1  \* capacity of a subscriber's Messages channel
MaxUnread == 1      \* requests a client has sent that the server has not read
MaxWire == 5        \* bytes a peer writes to the reader
MaxArray == 2       \* elements of a constructed array
MaxSweeps == 2      \* sweeps of the cleanup loop
MaxPublished == 3   \* publications of the one publisher

\* Sequences over S of length lo..hi.
SeqsOf(S, lo, hi) == UNION {[1..n -> S] : n \in lo..hi}

ToSet(seq) == {seq[i] : i \in 1..Len(seq)}

\* delete(m, key) of a Go map.
MapDelete(m, key) == [j \in (DOMAIN m) \ {key} |-> m[j]]

\* m[key] = v of a Go map.
MapPut(m, key, v) == [j \in (DOMAIN m) \cup {key} |-> IF j = key THEN v ELSE m[j]]

Reverse(seq) == [i \in 1..Len(seq) |-> seq[Len(seq) + 1 - i]]

(***************************************************************************)
(* List store (internal/store/lists.go).                                   *)
(***************************************************************************)
LPush(d, key, values) ==
    LET list == IF key \in DOMAIN d THEN d[key] ELSE <<>>
        newList == Reverse(values) \o list
    IN  [data |-> MapPut(d, key, newList), ret |-> Len(newList)]

RPush(d, key, values) ==
    LET list == IF key \in DOMAIN d THEN d[key] ELSE <<>>
        newList == list \o values
    IN  [data |-> MapPut(d, key, newList), ret |-> Len(newList)]

LPop(d, key) ==
    IF key \notin DOMAIN d \/ Len(d[key]) = 0
    THEN [data |-> d, value |-> "", ok |-> FALSE]
    ELSE LET list == Tail(d[key])
         IN  [data |-> IF Len(list) = 0 THEN MapDelete(d, key)
                                        ELSE MapPut(d, key, list),
              value |-> Head(d[key]), ok |-> TRUE]

RPop(d, key) ==
    IF key \notin DOMAIN d \/ Len(d[key]) = 0
    THEN [data |-> d, value |-> "", ok |-> FALSE]
    ELSE LET n == Len(d[key])
             list == SubSeq(d[key], 1, n - 1)
         IN  [data |-> IF Len(list) = 0 THEN MapDelete(d, key)
                                        ELSE MapPut(d, key, list),
              value |-> d[key][n], ok |-> TRUE]

LRange_StopExclusive(d, key, start, stop) ==
    IF key \notin DOMAIN d THEN <<>>
    ELSE LET length == Len(d[key])
             s1 == IF start < 0 THEN length + start ELSE start
             e1 == IF stop < 0 THEN length + stop ELSE stop
             s2 == IF s1 < 0 THEN 0 ELSE s1
             e2 == IF e1 >= length THEN length - 1 ELSE e1
         IN  IF s2 > e2 \/ s2 >= length THEN <<>>
             ELSE SubSeq(d[key], s2 + 1, e2)
LRange(d, key, start, stop) ==
    IF key \notin DOMAIN d THEN <<>>
    ELSE LET length == Len(d[key])
             s1 == IF start < 0 THEN length + start ELSE start
             e1 == IF stop < 0 THEN length + stop ELSE stop
             s2 == IF s1 < 0 THEN 0 ELSE s1
             e2 == IF e1 >= length THEN length - 1 ELSE e1
         IN  IF s2 > e2 \/ s2 >= length THEN <<>>
             ELSE SubSeq(d[key], s2 + 1, e2 + 1)

LLen(d, key) == IF key \notin DOMAIN d THEN 0 ELSE Len(d[key])

ListKeyType(d, key) == IF key \notin DOMAIN d THEN "none" ELSE "list"

(***************************************************************************)
(* Hash store (MemoryHashStore).                                           *)
(***************************************************************************)
\* The loop of HSet over the field-value pairs from position i on:
\* acc is [hash, newFields].
RECURSIVE HSetLoop(_, _, _)
HSetLoop(acc, fieldValues, i) ==
    IF i > Len(fieldValues) THEN acc
    ELSE LET field == fieldValues[i]
             value == fieldValues[i + 1]
         IN  HSetLoop([hash |-> MapPut(acc.hash, field, value),
                       newFields |-> IF field \in DOMAIN acc.hash
                                     THEN acc.newFields
                                     ELSE acc.newFields + 1],
                      fieldValues, i + 2)

HSet(d, key, fieldValues) ==
    IF Len(fieldValues) < 2 \/ Len(fieldValues) % 2 # 0
    THEN [data |-> d, ret |-> 0]
    ELSE LET hash == IF key \in DOMAIN d THEN d[key] ELSE <<>>
             done == HSetLoop([hash |-> hash, newFields |-> 0], fieldValues, 1)
         IN  [data |-> MapPut(d, key, done.hash), ret |-> done.newFields]

HGet(d, key, field) ==
    IF key \notin DOMAIN d \/ field \notin DOMAIN d[key]
    THEN [value |-> "", ok |-> FALSE]
    ELSE [value |-> d[key][field], ok |-> TRUE]

HDel(d, key, fields) ==
    IF key \notin DOMAIN d THEN [data |-> d, ret |-> 0]
    ELSE LET gone == ToSet(fields) \cap DOMAIN d[key]
             hash == [f \in (DOMAIN d[key]) \ gone |-> d[key][f]]
         IN  [data |-> IF DOMAIN hash = {} THEN MapDelete(d, key)
                                           ELSE MapPut(d, key, hash),
              ret |-> Cardinality(gone)]

HGetAll(d, key) == IF key \notin DOMAIN d THEN <<>> ELSE d[key]

HKeys(d, key) == IF key \notin DOMAIN d THEN {} ELSE DOMAIN d[key]

HLen(d, key) == IF key \notin DOMAIN d THEN 0 ELSE Cardinality(DOMAIN d[key])

HashKeyType(d, key) == IF key \in DOMAIN d THEN "hash" ELSE "none"

(***************************************************************************)
(* Set store (internal/store/sets.go).                                     *)
(***************************************************************************)
SAdd(d, key, members) ==
    LET set == IF key \in DOMAIN d THEN d[key] ELSE {}
    IN  [data |-> MapPut(d, key, set \cup ToSet(members)),
         ret |-> Cardinality(ToSet(members) \ set)]

SRem(d, key, members) ==
    IF key \notin DOMAIN d THEN [data |-> d, ret |-> 0]
    ELSE LET set == d[key] \ ToSet(members)
         IN  [data |-> IF set = {} THEN MapDelete(d, key)
                                   ELSE MapPut(d, key, set),
              ret |-> Cardinality(d[key] \cap ToSet(members))]

SMembers(d, key) == IF key \notin DOMAIN d THEN {} ELSE d[key]

SIsMember(d, key, member) == key \in DOMAIN d /\ member \in d[key]

SCard(d, key) == IF key \notin DOMAIN d THEN 0 ELSE Cardinality(d[key])

\* The index of the first smallest set among keys, as the scan of SInter
\* finds it (a later set replaces the candidate only when strictly smaller).
RECURSIVE SmallestIdx(_, _, _, _)
SmallestIdx(d, keys, i, best) ==
    IF i > Len(keys) THEN best
    ELSE SmallestIdx(d, keys, i + 1,
                     IF Cardinality(d[keys[i]]) < Cardinality(d[keys[best]])
                     THEN i ELSE best)

SInter(d, keys) ==
    IF Len(keys) = 0 THEN {}
    ELSE IF \E i \in 1..Len(keys) : keys[i] \notin DOMAIN d THEN {}
    ELSE LET smallestIdx == SmallestIdx(d, keys, 1, 1)
         IN  {member \in d[keys[smallestIdx]] :
                 \A i \in 1..Len(keys) :
                     i = smallestIdx \/ member \in d[keys[i]]}

SetKeyType(d, key) == IF key \in DOMAIN d THEN "set" ELSE "none"

(***************************************************************************)
(* String store (memoryStore): entries with an optional absolute expiry.   *)
(***************************************************************************)
ZeroTime == 0       \* the zero time.Time: no expiration

isExpired(e, t) == e.expiresAt # ZeroTime /\ t > e.expiresAt

Delete(d, key) ==
    [data |-> IF key \in DOMAIN d THEN MapDelete(d, key) ELSE d,
     ret |-> key \in DOMAIN d]

\* Get with nothing running between its read of the entry and its lazy
\* delete of an expired one.
Get(d, key, t) ==
    IF key \notin DOMAIN d THEN [data |-> d, value |-> "", ok |-> FALSE]
    ELSE IF isExpired(d[key], t)
         THEN [data |-> Delete(d, key).data, value |-> "", ok |-> FALSE]
         ELSE [data |-> d, value |-> d[key].value, ok |-> TRUE]

Set(d, key, value) ==
    MapPut(d, key, [value |-> value, expiresAt |-> ZeroTime])

SetWithTTL(d, key, value, ttl, t) ==
    MapPut(d, key, [value |-> value, expiresAt |-> t + ttl])

StoreKeys(d, t) == {key \in DOMAIN d : ~isExpired(d[key], t)}

\* TTL returns (remaining, true) only for an unexpired entry that has an
\* expiry; it never removes anything.
TTL(d, key, t) ==
    IF key \notin DOMAIN d THEN [ttl |-> 0, ok |-> FALSE]
    ELSE IF d[key].expiresAt = ZeroTime THEN [ttl |-> 0, ok |-> FALSE]
    ELSE IF isExpired(d[key], t) THEN [ttl |-> 0, ok |-> FALSE]
    ELSE IF d[key].expiresAt - t < 0 THEN [ttl |-> 0, ok |-> FALSE]
    ELSE [ttl |-> d[key].expiresAt - t, ok |-> TRUE]

\* removeExpired: one sweep of the background cleanup loop.
removeExpired(d, t) == [key \in StoreKeys(d, t) |-> d[key]]

(***************************************************************************)
(* RESP replies (resp.Value) as the handlers build them.                   *)
(***************************************************************************)
respSimpleString(s) ==
    [type |-> "simple", str |-> s, num |-> 0, null |-> FALSE, array |-> <<>>]

respError(s) ==
    [type |-> "error", str |-> s, num |-> 0, null |-> FALSE, array |-> <<>>]

respInteger(n) ==
    [type |-> "integer", str |-> "", num |-> n, null |-> FALSE, array |-> <<>>]

respBulkString(s) ==
    [type |-> "bulk", str |-> s, num |-> 0, null |-> FALSE, array |-> <<>>]

respNullBulkString ==
    [type |-> "bulk", str |-> "", num |-> 0, null |-> TRUE, array |-> <<>>]

respArray(a) ==
    [type |-> "array", str |-> "", num |-> 0, null |-> FALSE, array |-> a]

respNullArray ==
    [type |-> "array", str |-> "", num |-> 0, null |-> TRUE, array |-> <<>>]

wrongTypeError == "WRONGTYPE Operation against a key holding the wrong kind of value"

\* No reply: the step was a direct call of a store, not a command.
NoReply == [type |-> "none", str |-> "", num |-> 0, null |-> FALSE, array |-> <<>>]

\* The orders in which a Go map iteration can yield the elements of S.
Orderings(S) == {seq \in [1..Cardinality(S) -> S] : ToSet(seq) = S}

(***************************************************************************)
(* Command handlers of the server.  A handler takes the four stores as a   *)
(* record st = [str, list, hash, set], the time t and the arguments after  *)
(* the command name (a sequence of strings), and yields the stores         *)
(* afterwards and the reply.                                               *)
(***************************************************************************)
Result(st, rep) == [st |-> st, reply |-> rep]

\* strconv.Atoi on the argument strings the model draws.
Atoi(s) ==
    CASE s = "-1" -> [n |-> -1, ok |-> TRUE]
      [] s = "0" -> [n |-> 0, ok |-> TRUE]
      [] s = "1" -> [n |-> 1, ok |-> TRUE]
      [] s = "2" -> [n |-> 2, ok |-> TRUE]
      [] OTHER -> [n |-> 0, ok |-> FALSE]

\* strings.ToUpper on the option and command names the model draws.
ToUpper(s) ==
    CASE s = "ex" -> "EX"
      [] s = "multi" -> "MULTI"
      [] s = "exec" -> "EXEC"
      [] s = "set" -> "SET"
      [] OTHER -> s

handleGet(st, t, args) ==
    IF Len(args) # 1
    THEN Result(st, respError("ERR wrong number of arguments for 'get' command"))
    ELSE LET g == Get(st.str, args[1], t)
         IN  Result([st EXCEPT !.str = g.data],
                    IF ~g.ok THEN respNullBulkString ELSE respBulkString(g.value))

handleSet(st, t, args) ==
    IF Len(args) < 2
    THEN Result(st, respError("ERR wrong number of arguments for 'set' command"))
    ELSE IF Len(args) > 2
    THEN IF ToUpper(args[3]) = "EX"
         THEN IF Len(args) < 4 THEN Result(st, respError("ERR syntax error"))
              ELSE IF ~Atoi(args[4]).ok \/ Atoi(args[4]).n <= 0
              THEN Result(st, respError("ERR invalid expire time in 'set' command"))
              ELSE Result([st EXCEPT !.str =
                              SetWithTTL(st.str, args[1], args[2],
                                         Atoi(args[4]).n * Second, t)],
                          respSimpleString("OK"))
         ELSE Result(st, respError("ERR syntax error"))
    ELSE Result([st EXCEPT !.str = Set(st.str, args[1], args[2])],
                respSimpleString("OK"))

\* The loop of handleDel over its arguments from position i on:
\* acc is [data, deleted].
RECURSIVE DelLoop(_, _, _)
DelLoop(acc, args, i) ==
    IF i > Len(args) THEN acc
    ELSE LET r == Delete(acc.data, args[i])
         IN  DelLoop([data |-> r.data,
                      deleted |-> IF r.ret THEN acc.deleted + 1 ELSE acc.deleted],
                     args, i + 1)

handleDel(st, t, args) ==
    IF Len(args) = 0
    THEN Result(st, respError("ERR wrong number of arguments for 'del' command"))
    ELSE LET r == DelLoop([data |-> st.str, deleted |-> 0], args, 1)
         IN  Result([st EXCEPT !.str = r.data], respInteger(r.deleted))

\* handleExpire with nothing running between its Get and its SetWithTTL.
handleExpire(st, t, args) ==
    IF Len(args) # 2
    THEN Result(st, respError("ERR wrong number of arguments for 'expire' command"))
    ELSE IF ~Atoi(args[2]).ok
    THEN Result(st, respError("ERR value is not an integer or out of range"))
    ELSE LET g == Get(st.str, args[1], t)
         IN  IF ~g.ok THEN Result([st EXCEPT !.str = g.data], respInteger(0))
             ELSE Result([st EXCEPT !.str =
                             SetWithTTL(g.data, args[1], g.value,
                                        Atoi(args[2]).n * Second, t)],
                         respInteger(1))

\* handleTTL with nothing running (and no time passing) between its Get and
\* its TTL.
handleTTL(st, t, args) ==
    IF Len(args) # 1
    THEN Result(st, respError("ERR wrong number of arguments for 'ttl' command"))
    ELSE LET g == Get(st.str, args[1], t)
         IN  IF ~g.ok THEN Result([st EXCEPT !.str = g.data], respInteger(-2))
             ELSE IF ~TTL(g.data, args[1], t).ok
                  THEN Result([st EXCEPT !.str = g.data], respInteger(-1))
                  ELSE Result([st EXCEPT !.str = g.data],
                              respInteger(TTL(g.data, args[1], t).ttl \div Second))

\* checkType of the list handler, checkKeyType of the hash handler and the
\* inline check of the set handlers: the key is looked up in the string
\* store only (a lookup that lazily deletes an expired entry).
checkType_NoLookup(str, key, t) == [data |-> str, value |-> "", ok |-> FALSE]
checkType(str, key, t) == Get(str, key, t)

bulkStrings(seq) == [i \in 1..Len(seq) |-> respBulkString(seq[i])]

HandleLPush(st, t, args) ==
    IF Len(args) < 2
    THEN Result(st, respError("ERR wrong number of arguments for 'lpush' command"))
    ELSE LET c == checkType(st.str, args[1], t)
         IN  IF c.ok THEN Result([st EXCEPT !.str = c.data], respError(wrongTypeError))
             ELSE LET r == LPush(st.list, args[1], Tail(args))
                  IN  Result([st EXCEPT !.str = c.data, !.list = r.data],
                             respInteger(r.ret))

HandleRPush(st, t, args) ==
    IF Len(args) < 2
    THEN Result(st, respError("ERR wrong number of arguments for 'rpush' command"))
    ELSE LET c == checkType(st.str, args[1], t)
         IN  IF c.ok THEN Result([st EXCEPT !.str = c.data], respError(wrongTypeError))
             ELSE LET r == RPush(st.list, args[1], Tail(args))
                  IN  Result([st EXCEPT !.str = c.data, !.list = r.data],
                             respInteger(r.ret))

HandleLPop(st, t, args) ==
    IF Len(args) # 1
    THEN Result(st, respError("ERR wrong number of arguments for 'lpop' command"))
    ELSE LET c == checkType(st.str, args[1], t)
         IN  IF c.ok THEN Result([st EXCEPT !.str = c.data], respError(wrongTypeError))
             ELSE LET r == LPop(st.list, args[1])
                  IN  Result([st EXCEPT !.str = c.data, !.list = r.data],
                             IF ~r.ok THEN respNullBulkString
                                      ELSE respBulkString(r.value))

HandleRPop(st, t, args) ==
    IF Len(args) # 1
    THEN Result(st, respError("ERR wrong number of arguments for 'rpop' command"))
    ELSE LET c == checkType(st.str, args[1], t)
         IN  IF c.ok THEN Result([st EXCEPT !.str = c.data], respError(wrongTypeError))
             ELSE LET r == RPop(st.list, args[1])
                  IN  Result([st EXCEPT !.str = c.data, !.list = r.data],
                             IF ~r.ok THEN respNullBulkString
                                      ELSE respBulkString(r.value))

HandleLRange(st, t, args) ==
    IF Len(args) # 3
    THEN Result(st, respError("ERR wrong number of arguments for 'lrange' command"))
    ELSE LET c == checkType(st.str, args[1], t)
         IN  IF c.ok THEN Result([st EXCEPT !.str = c.data], respError(wrongTypeError))
             ELSE IF ~Atoi(args[2]).ok \/ ~Atoi(args[3]).ok
             THEN Result([st EXCEPT !.str = c.data],
                         respError("ERR value is not an integer or out of range"))
             ELSE Result([st EXCEPT !.str = c.data],
                         respArray(bulkStrings(
                             LRange(st.list, args[1], Atoi(args[2]).n, Atoi(args[3]).n))))

HandleLLen(st, t, args) ==
    IF Len(args) # 1
    THEN Result(st, respError("ERR wrong number of arguments for 'llen' command"))
    ELSE LET c == checkType(st.str, args[1], t)
         IN  IF c.ok THEN Result([st EXCEPT !.str = c.data], respError(wrongTypeError))
             ELSE Result([st EXCEPT !.str = c.data], respInteger(LLen(st.list, args[1])))

\* The unordered replies (HGETALL, HKEYS, SMEMBERS, SINTER) come out in the
\* order of a Go map iteration: order is that order, one of Orderings(...).
HandleHSet(st, t, args) ==
    IF Len(args) < 3
    THEN Result(st, respError("ERR wrong number of arguments for 'hset' command"))
    ELSE IF (Len(args) - 1) % 2 # 0
    THEN Result(st, respError("ERR wrong number of arguments for 'hset' command"))
    ELSE LET c == checkType(st.str, args[1], t)
         IN  IF c.ok THEN Result([st EXCEPT !.str = c.data], respError(wrongTypeError))
             ELSE LET r == HSet(st.hash, args[1], Tail(args))
                  IN  Result([st EXCEPT !.str = c.data, !.hash = r.data],
                             respInteger(r.ret))

HandleHGet(st, t, args) ==
    IF Len(args) # 2
    THEN Result(st, respError("ERR wrong number of arguments for 'hget' command"))
    ELSE LET c == checkType(st.str, args[1], t)
         IN  IF c.ok THEN Result([st EXCEPT !.str = c.data], respError(wrongTypeError))
             ELSE LET r == HGet(st.hash, args[1], args[2])
                  IN  Result([st EXCEPT !.str = c.data],
                             IF ~r.ok THEN respNullBulkString
                                      ELSE respBulkString(r.value))

HandleHDel(st, t, args) ==
    IF Len(args) < 2
    THEN Result(st, respError("ERR wrong number of arguments for 'hdel' command"))
    ELSE LET c == checkType(st.str, args[1], t)
         IN  IF c.ok THEN Result([st EXCEPT !.str = c.data], respError(wrongTypeError))
             ELSE LET r == HDel(st.hash, args[1], Tail(args))
                  IN  Result([st EXCEPT !.str = c.data, !.hash = r.data],
                             respInteger(r.ret))

\* field1, value1, field2, value2, ... in the order given.
flatten(hash, order) ==
    [i \in 1..(2 * Len(order)) |->
        IF i % 2 = 1 THEN respBulkString(order[(i + 1) \div 2])
                     ELSE respBulkString(hash[order[i \div 2]])]

HandleHGetAll(st, t, args, order) ==
    IF Len(args) # 1
    THEN Result(st, respError("ERR wrong number of arguments for 'hgetall' command"))
    ELSE LET c == checkType(st.str, args[1], t)
         IN  IF c.ok THEN Result([st EXCEPT !.str = c.data], respError(wrongTypeError))
             ELSE Result([st EXCEPT !.str = c.data],
                         respArray(flatten(HGetAll(st.hash, args[1]), order)))

HandleHKeys(st, t, args, order) ==
    IF Len(args) # 1
    THEN Result(st, respError("ERR wrong number of arguments for 'hkeys' command"))
    ELSE LET c == checkType(st.str, args[1], t)
         IN  IF c.ok THEN Result([st EXCEPT !.str = c.data], respError(wrongTypeError))
             ELSE Result([st EXCEPT !.str = c.data], respArray(bulkStrings(order)))

HandleHLen(st, t, args) ==
    IF Len(args) # 1
    THEN Result(st, respError("ERR wrong number of arguments for 'hlen' command"))
    ELSE LET c == checkType(st.str, args[1], t)
         IN  IF c.ok THEN Result([st EXCEPT !.str = c.data], respError(wrongTypeError))
             ELSE Result([st EXCEPT !.str = c.data], respInteger(HLen(st.hash, args[1])))

handleSAdd(st, t, args) ==
    IF Len(args) < 2
    THEN Result(st, respError("ERR wrong number of arguments for 'sadd' command"))
    ELSE LET c == checkType(st.str, args[1], t)
         IN  IF c.ok THEN Result([st EXCEPT !.str = c.data], respError(wrongTypeError))
             ELSE LET r == SAdd(st.set, args[1], Tail(args))
                  IN  Result([st EXCEPT !.str = c.data, !.set = r.data],
                             respInteger(r.ret))

handleSRem(st, t, args) ==
    IF Len(args) < 2
    THEN Result(st, respError("ERR wrong number of arguments for 'srem' command"))
    ELSE LET c == checkType(st.str, args[1], t)
         IN  IF c.ok THEN Result([st EXCEPT !.str = c.data], respError(wrongTypeError))
             ELSE LET r == SRem(st.set, args[1], Tail(args))
                  IN  Result([st EXCEPT !.str = c.data, !.set = r.data],
                             respInteger(r.ret))

handleSMembers(st, t, args, order) ==
    IF Len(args) # 1
    THEN Result(st, respError("ERR wrong number of arguments for 'smembers' command"))
    ELSE LET c == checkType(st.str, args[1], t)
         IN  IF c.ok THEN Result([st EXCEPT !.str = c.data], respError(wrongTypeError))
             ELSE Result([st EXCEPT !.str = c.data], respArray(bulkStrings(order)))

handleSIsMember(st, t, args) ==
    IF Len(args) # 2
    THEN Result(st, respError("ERR wrong number of arguments for 'sismember' command"))
    ELSE LET c == checkType(st.str, args[1], t)
         IN  IF c.ok THEN Result([st EXCEPT !.str = c.data], respError(wrongTypeError))
             ELSE Result([st EXCEPT !.str = c.data],
                         IF SIsMember(st.set, args[1], args[2])
                         THEN respInteger(1) ELSE respInteger(0))

handleSCard(st, t, args) ==
    IF Len(args) # 1
    THEN Result(st, respError("ERR wrong number of arguments for 'scard' command"))
    ELSE LET c == checkType(st.str, args[1], t)
         IN  IF c.ok THEN Result([st EXCEPT !.str = c.data], respError(wrongTypeError))
             ELSE Result([st EXCEPT !.str = c.data], respInteger(SCard(st.set, args[1])))

\* The loop of handleSInter over its keys from position i on: each key is
\* checked against the string store in turn; acc is [data, wrong].
RECURSIVE SInterCheck(_, _, _, _)
SInterCheck(acc, args, i, t) ==
    IF i > Len(args) \/ acc.wrong THEN acc
    ELSE LET c == checkType(acc.data, args[i], t)
         IN  SInterCheck([data |-> c.data, wrong |-> c.ok], args, i + 1, t)

handleSInter(st, t, args, order) ==
    IF Len(args) < 1
    THEN Result(st, respError("ERR wrong number of arguments for 'sinter' command"))
    ELSE LET c == SInterCheck([data |-> st.str, wrong |-> FALSE], args, 1, t)
         IN  IF c.wrong THEN Result([st EXCEPT !.str = c.data], respError(wrongTypeError))
             ELSE Result([st EXCEPT !.str = c.data], respArray(bulkStrings(order)))

handlePing(st, args) ==
    IF Len(args) = 0 THEN Result(st, respSimpleString("PONG"))
    ELSE IF Len(args) = 1 THEN Result(st, respBulkString(args[1]))
    ELSE Result(st, respError("ERR wrong number of arguments for 'ping' command"))

handleEcho(st, args) ==
    IF Len(args) # 1
    THEN Result(st, respError("ERR wrong number of arguments for 'echo' command"))
    ELSE Result(st, respBulkString(args[1]))

\* The orders in which the reply of an unordered command can come out.
MapOrders(st, cmd, args) ==
    CASE cmd \in {"HGETALL", "HKEYS"} /\ Len(args) = 1 ->
             Orderings(HKeys(st.hash, args[1]))
      [] cmd = "SMEMBERS" /\ Len(args) = 1 -> Orderings(SMembers(st.set, args[1]))
      [] cmd = "SINTER" -> Orderings(SInter(st.set, args))
      [] OTHER -> {<<>>}

\* executeCommand: the dispatch on the upper-cased command name.
executeCommand(st, t, name, args, order) ==
    LET cmd == ToUpper(name)
    IN  CASE cmd = "PING" -> handlePing(st, args)
          [] cmd = "ECHO" -> handleEcho(st, args)
          [] cmd = "GET" -> handleGet(st, t, args)
          [] cmd = "SET" -> handleSet(st, t, args)
          [] cmd = "DEL" -> handleDel(st, t, args)
          [] cmd = "EXPIRE" -> handleExpire(st, t, args)
          [] cmd = "TTL" -> handleTTL(st, t, args)
          [] cmd = "LPUSH" -> HandleLPush(st, t, args)
          [] cmd = "RPUSH" -> HandleRPush(st, t, args)
          [] cmd = "LPOP" -> HandleLPop(st, t, args)
          [] cmd = "RPOP" -> HandleRPop(st, t, args)
          [] cmd = "LRANGE" -> HandleLRange(st, t, args)
          [] cmd = "LLEN" -> HandleLLen(st, t, args)
          [] cmd = "HSET" -> HandleHSet(st, t, args)
          [] cmd = "HGET" -> HandleHGet(st, t, args)
          [] cmd = "HDEL" -> HandleHDel(st, t, args)
          [] cmd = "HGETALL" -> HandleHGetAll(st, t, args, order)
          [] cmd = "HKEYS" -> HandleHKeys(st, t, args, order)
          [] cmd = "HLEN" -> HandleHLen(st, t, args)
          [] cmd = "SADD" -> handleSAdd(st, t, args)
          [] cmd = "SREM" -> handleSRem(st, t, args)
          [] cmd = "SMEMBERS" -> handleSMembers(st, t, args, order)
          [] cmd = "SISMEMBER" -> handleSIsMember(st, t, args)
          [] cmd = "SCARD" -> handleSCard(st, t, args)
          [] cmd = "SINTER" -> handleSInter(st, t, args, order)
          [] OTHER -> Result(st, respError("ERR unknown command"))

(***************************************************************************)
(* Initial values of each group of variables.                              *)
(***************************************************************************)
StoresEmpty ==
    /\ strData = <<>>
    /\ listData = <<>>
    /\ hashData = <<>>
    /\ setData = <<>>
    /\ now = StartTime

\* No connection is inside a handler.
Idle == [op |-> "", step |-> "", key |-> "", value |-> "", secs |-> 0]
ConnsIdle == pc = [c \in Conns |-> Idle]

\* transaction.New() for every connection, NewMemoryVersionTracker().
NewTransaction == [inMulti |-> FALSE, queue |-> <<>>, watching |-> <<>>]
TxIdle ==
    /\ tx = [c \in Conns |-> NewTransaction]
    /\ versions = <<>>
    /\ invoked = <<>>
    /\ dirty = [c \in Conns |-> {}]

\* NewManager(path, stores), with no file at the path or beside it.
Writers == {"save", "bgsave"}
NilChan == 0
NoFile == [exists |-> FALSE, complete |-> FALSE, data |-> <<>>]
NotWriting == [step |-> "", snapshot |-> <<>>, err |-> ""]
SnapIdle ==
    /\ files = [path |-> NoFile, tmp |-> NoFile]
    /\ mu = "-"
    /\ saving = FALSE
    /\ saveDone = NilChan
    /\ writer = [w \in Writers |-> NotWriting]
    /\ result = [call |-> "", err |-> ""]

\* No background save was started, nobody waits for one, no Save succeeded.
Waiters == {"w1", "w2"}
NotWaiting == [step |-> "", done |-> NilChan, err |-> ""]
NothingSaved == [any |-> FALSE, st |-> <<>>, t |-> 0]
WaitIdle ==
    /\ chans = <<>>
    /\ waiter = [w \in Waiters |-> NotWaiting]
    /\ saved = NothingSaved

\* pubsub.New(), and NewSubscriber(id) for every subscriber.
Subscribers == {"s1", "s2"}
PubSubNew ==
    /\ subs = [channels |-> <<>>, patterns |-> <<>>,
               subChannels |-> <<>>, subPatterns |-> <<>>]
    /\ Messages = [s \in Subscribers |-> <<>>]

\* server.New(...) and Start(): listening, no connection accepted.
Clients == {"c1", "c2"}
NoConn == [state |-> "none", task |-> "none", unread |-> <<>>]
ServerStarted ==
    /\ quit = FALSE
    /\ listener = TRUE
    /\ wg = 0
    /\ stopping = ""
    /\ conn = [c \in Clients |-> NoConn]

\* The zero Value, and a reader with nothing read from or written to it.
ZeroValue == [type |-> "", str |-> <<>>, num |-> 0, null |-> FALSE, array |-> <<>>]
NotParsed == [value |-> ZeroValue, err |-> "-", pos |-> 0]
NoValue == [type |-> "none", str |-> <<>>, num |-> 0, null |-> FALSE, array |-> <<>>]
NotEncoded == <<"none">>
RespIdle ==
    /\ wire = <<>>
    /\ parsed = NotParsed
    /\ source = NoValue
    /\ encoded = NotEncoded

\* store.New(): the cleanup loop is started, nobody has called Close.
Closers == {"k1", "k2"}
NotClosing == [step |-> "", returned |-> FALSE, panic |-> FALSE]
SweeperStarted ==
    /\ stopped = FALSE
    /\ doneClosed = FALSE
    /\ closer = [k \in Closers |-> NotClosing]
    /\ sweeper = [step |-> "select", sweeps |-> 0]
    /\ tick = FALSE

\* NewSetStore(): the mutex is free, nobody is inside a call.
SetReaders == {"r1", "r2"}
SetMutators == {"m1"}
NotReading ==
    [step |-> "", keys |-> <<>>, smallestIdx |-> 0, todo |-> {}, result |-> {},
     instants |-> {}]
NotMutating == [step |-> "", op |-> "", key |-> "", members |-> <<>>]
SetStoreNew ==
    /\ setMu = [readers |-> {}, writer |-> ""]
    /\ sinter = [r \in SetReaders |-> NotReading]
    /\ mutator = [w \in SetMutators |-> NotMutating]

\* Nothing published, nothing yielded.
OrderIdle ==
    /\ published = 0
    /\ yielded = [s \in Subscribers |-> 0]

\* No Exec is running and nobody is in a method of the Transaction.
Callers == {"executor", "other"}
NotInExec == [step |-> "", i |-> 0]
ReentryIdle ==
    /\ txMu = "-"
    /\ execPos = NotInExec
    /\ caller = [w \in Callers |-> ""]

MoreIdle ==
    /\ OrderIdle
    /\ confirmed = [s \in Subscribers |-> 0]
    /\ stale = "no"
    /\ ReentryIdle

RestIdle == RespIdle /\ SweeperStarted /\ SetStoreNew /\ shadow = <<>> /\ MoreIdle

ExtIdle == WaitIdle /\ PubSubNew /\ ServerStarted /\ RestIdle

(***************************************************************************)
(* SpecStoreOps: the list, hash and set stores called directly, with any   *)
(* arguments their signatures allow (variadic arguments may be empty).     *)
(***************************************************************************)
StoreLPush(key, values) ==
    /\ LLen(listData, key) + Len(values) <= MaxListLen
    /\ listData' = LPush(listData, key, values).data
    /\ UNCHANGED <<strData, hashData, setData, now, reply, pc, txVars, snapVars, extVars>>

StoreRPush(key, values) ==
    /\ LLen(listData, key) + Len(values) <= MaxListLen
    /\ listData' = RPush(listData, key, values).data
    /\ UNCHANGED <<strData, hashData, setData, now, reply, pc, txVars, snapVars, extVars>>

StoreLPop(key) ==
    /\ listData' = LPop(listData, key).data
    /\ UNCHANGED <<strData, hashData, setData, now, reply, pc, txVars, snapVars, extVars>>

StoreRPop(key) ==
    /\ listData' = RPop(listData, key).data
    /\ UNCHANGED <<strData, hashData, setData, now, reply, pc, txVars, snapVars, extVars>>

StoreHSet(key, fieldValues) ==
    /\ hashData' = HSet(hashData, key, fieldValues).data
    /\ UNCHANGED <<strData, listData, setData, now, reply, pc, txVars, snapVars, extVars>>

StoreHDel(key, fields) ==
    /\ hashData' = HDel(hashData, key, fields).data
    /\ UNCHANGED <<strData, listData, setData, now, reply, pc, txVars, snapVars, extVars>>

StoreSAdd(key, members) ==
    /\ setData' = SAdd(setData, key, members).data
    /\ UNCHANGED <<strData, listData, hashData, now, reply, pc, txVars, snapVars, extVars>>

StoreSRem(key, members) ==
    /\ setData' = SRem(setData, key, members).data
    /\ UNCHANGED <<strData, listData, hashData, now, reply, pc, txVars, snapVars, extVars>>

\* The field-value argument lists of HSet: any length up to MaxArgs, fields
\* at the odd positions and values at the even ones.
FieldValueArgs ==
    {fv \in SeqsOf(Fields \cup Vals, 0, MaxArgs) :
        \A i \in 1..Len(fv) : IF i % 2 = 1 THEN fv[i] \in Fields ELSE fv[i] \in Vals}

InitStoreOps == StoresEmpty /\ reply = NoReply /\ ConnsIdle /\ TxIdle /\ SnapIdle /\ ExtIdle

NextStoreOps ==
    \/ \E key \in Keys, values \in SeqsOf(Vals, 0, MaxArgs) : StoreLPush(key, values)
    \/ \E key \in Keys, values \in SeqsOf(Vals, 0, MaxArgs) : StoreRPush(key, values)
    \/ \E key \in Keys : StoreLPop(key)
    \/ \E key \in Keys : StoreRPop(key)
    \/ \E key \in Keys, fieldValues \in FieldValueArgs : StoreHSet(key, fieldValues)
    \/ \E key \in Keys, fields \in SeqsOf(Fields, 0, MaxArgs) : StoreHDel(key, fields)
    \/ \E key \in Keys, members \in SeqsOf(Vals, 0, MaxArgs) : StoreSAdd(key, members)
    \/ \E key \in Keys, members \in SeqsOf(Vals, 0, MaxArgs) : StoreSRem(key, members)

SpecStoreOps == InitStoreOps /\ [][NextStoreOps]_vars

\* C8: no key is observable, through KeyType, length, membership or range
\* queries, as an existing list, hash or set that has no element: an existing
\* list has a positive LLen and a non-empty full range, an existing hash a
\* positive HLen and a field, an existing set a positive SCard and a member.
C8_EmptyContainerNeverObservable ==
    \A key \in Keys :
        /\ ListKeyType(listData, key) = "list" =>
              /\ LLen(listData, key) > 0
              /\ LRange(listData, key, 0, -1) # <<>>
        /\ HashKeyType(hashData, key) = "hash" =>
              /\ HLen(hashData, key) > 0
              /\ HKeys(hashData, key) # {}
        /\ SetKeyType(setData, key) = "set" =>
              /\ SCard(setData, key) > 0
              /\ \E member \in Vals : SIsMember(setData, key, member)

(***************************************************************************)
(* Spec: the server's handlers run one at a time on the four stores.  Each *)
(* action is one command, from the arrival of its arguments to its return; *)
(* Tick lets a second pass.  The replies are not kept in the state: the    *)
(* properties read them off the handlers' results.                         *)
(***************************************************************************)
St == [str |-> strData, list |-> listData, hash |-> hashData, set |-> setData]

\* The effect of a handler's result r: the stores as the handler leaves
\* them.
Apply(r) ==
    /\ strData' = r.st.str
    /\ listData' = r.st.list
    /\ hashData' = r.st.hash
    /\ setData' = r.st.set

\* key followed by each of the argument lists in rest.
WithKey(rest) == {<<key>> \o r : key \in Keys, r \in rest}

SetArgs ==
    WithKey({<<v>> : v \in Vals}) \cup WithKey({<<v, "EX", "1">> : v \in Vals})
    \cup {<<"x">>, <<"x", "a", "EX", "0">>, <<"x", "a", "PX", "1">>}
ExpireArgs == WithKey({<<"1">>}) \cup {<<"x", "abc">>}
PushArgs == WithKey(SeqsOf(Elems, 0, MaxArgs))
HSetArgs ==
    WithKey({fv \in SeqsOf(Fields \cup Elems, 1, MaxArgs) :
                \A i \in 1..Len(fv) :
                    IF i % 2 = 1 THEN fv[i] \in Fields ELSE fv[i] \in Elems})
HDelArgs == WithKey(SeqsOf(Fields, 1, MaxArgs))
MemberArgs == WithKey(SeqsOf(Elems, 0, MaxArgs))
KeyArgs == WithKey({<<>>})
KeysArgs == SeqsOf(Keys, 1, MaxArgs)
LRangeArgs == WithKey({<<"0", "-1">>}) \cup {<<"x", "0", "abc">>}
HGetArgs == WithKey({<<f>> : f \in Fields})
SIsMemberArgs == WithKey({<<v>> : v \in Elems})

DoGet(args) ==
    /\ Apply(handleGet(St, now, args))
    /\ UNCHANGED <<now, reply, pc, txVars, snapVars, extVars>>
DoSet(args) ==
    /\ Apply(handleSet(St, now, args))
    /\ UNCHANGED <<now, reply, pc, txVars, snapVars, extVars>>
DoDel(args) ==
    /\ Apply(handleDel(St, now, args))
    /\ UNCHANGED <<now, reply, pc, txVars, snapVars, extVars>>
DoExpire(args) ==
    /\ Apply(handleExpire(St, now, args))
    /\ UNCHANGED <<now, reply, pc, txVars, snapVars, extVars>>
DoTTL(args) ==
    /\ Apply(handleTTL(St, now, args))
    /\ UNCHANGED <<now, reply, pc, txVars, snapVars, extVars>>

DoLPush(args) ==
    /\ Len(args) > 0 => LLen(listData, args[1]) + Len(args) - 1 <= MaxListLen
    /\ Apply(HandleLPush(St, now, args))
    /\ UNCHANGED <<now, reply, pc, txVars, snapVars, extVars>>
DoRPush(args) ==
    /\ Len(args) > 0 => LLen(listData, args[1]) + Len(args) - 1 <= MaxListLen
    /\ Apply(HandleRPush(St, now, args))
    /\ UNCHANGED <<now, reply, pc, txVars, snapVars, extVars>>
DoLPop(args) ==
    /\ Apply(HandleLPop(St, now, args))
    /\ UNCHANGED <<now, reply, pc, txVars, snapVars, extVars>>
DoRPop(args) ==
    /\ Apply(HandleRPop(St, now, args))
    /\ UNCHANGED <<now, reply, pc, txVars, snapVars, extVars>>
DoLRange(args) ==
    /\ Apply(HandleLRange(St, now, args))
    /\ UNCHANGED <<now, reply, pc, txVars, snapVars, extVars>>
DoLLen(args) ==
    /\ Apply(HandleLLen(St, now, args))
    /\ UNCHANGED <<now, reply, pc, txVars, snapVars, extVars>>

DoHSet(args) ==
    /\ Apply(HandleHSet(St, now, args))
    /\ UNCHANGED <<now, reply, pc, txVars, snapVars, extVars>>
DoHGet(args) ==
    /\ Apply(HandleHGet(St, now, args))
    /\ UNCHANGED <<now, reply, pc, txVars, snapVars, extVars>>
DoHDel(args) ==
    /\ Apply(HandleHDel(St, now, args))
    /\ UNCHANGED <<now, reply, pc, txVars, snapVars, extVars>>
DoHGetAll(args) ==
    /\ \E order \in MapOrders(St, "HGETALL", args) :
           Apply(HandleHGetAll(St, now, args, order))
    /\ UNCHANGED <<now, reply, pc, txVars, snapVars, extVars>>
DoHKeys(args) ==
    /\ \E order \in MapOrders(St, "HKEYS", args) :
           Apply(HandleHKeys(St, now, args, order))
    /\ UNCHANGED <<now, reply, pc, txVars, snapVars, extVars>>
DoHLen(args) ==
    /\ Apply(HandleHLen(St, now, args))
    /\ UNCHANGED <<now, reply, pc, txVars, snapVars, extVars>>

DoSAdd(args) ==
    /\ Apply(handleSAdd(St, now, args))
    /\ UNCHANGED <<now, reply, pc, txVars, snapVars, extVars>>
DoSRem(args) ==
    /\ Apply(handleSRem(St, now, args))
    /\ UNCHANGED <<now, reply, pc, txVars, snapVars, extVars>>
DoSMembers(args) ==
    /\ \E order \in MapOrders(St, "SMEMBERS", args) :
           Apply(handleSMembers(St, now, args, order))
    /\ UNCHANGED <<now, reply, pc, txVars, snapVars, extVars>>
DoSIsMember(args) ==
    /\ Apply(handleSIsMember(St, now, args))
    /\ UNCHANGED <<now, reply, pc, txVars, snapVars, extVars>>
DoSCard(args) ==
    /\ Apply(handleSCard(St, now, args))
    /\ UNCHANGED <<now, reply, pc, txVars, snapVars, extVars>>
DoSInter(args) ==
    /\ \E order \in MapOrders(St, "SINTER", args) :
           Apply(handleSInter(St, now, args, order))
    /\ UNCHANGED <<now, reply, pc, txVars, snapVars, extVars>>

Tick ==
    /\ now < MaxTime
    /\ now' = now + 1
    /\ UNCHANGED <<strData, listData, hashData, setData, reply, pc, txVars, snapVars, extVars>>

Init == StoresEmpty /\ reply = NoReply /\ ConnsIdle /\ TxIdle /\ SnapIdle /\ ExtIdle

Next ==
    \/ \E args \in KeyArgs : DoGet(args)
    \/ \E args \in SetArgs : DoSet(args)
    \/ \E args \in KeysArgs : DoDel(args)
    \/ \E args \in ExpireArgs : DoExpire(args)
    \/ \E args \in KeyArgs : DoTTL(args)
    \/ \E args \in PushArgs : DoLPush(args)
    \/ \E args \in PushArgs : DoRPush(args)
    \/ \E args \in KeyArgs : DoLPop(args)
    \/ \E args \in KeyArgs : DoRPop(args)
    \/ \E args \in LRangeArgs : DoLRange(args)
    \/ \E args \in KeyArgs : DoLLen(args)
    \/ \E args \in HSetArgs : DoHSet(args)
    \/ \E args \in HGetArgs : DoHGet(args)
    \/ \E args \in HDelArgs : DoHDel(args)
    \/ \E args \in KeyArgs : DoHGetAll(args)
    \/ \E args \in KeyArgs : DoHKeys(args)
    \/ \E args \in KeyArgs : DoHLen(args)
    \/ \E args \in MemberArgs : DoSAdd(args)
    \/ \E args \in MemberArgs : DoSRem(args)
    \/ \E args \in KeyArgs : DoSMembers(args)
    \/ \E args \in SIsMemberArgs : DoSIsMember(args)
    \/ \E args \in KeyArgs : DoSCard(args)
    \/ \E args \in KeysArgs : DoSInter(args)
    \/ Tick

Spec == Init /\ [][Next]_vars

(***************************************************************************)
(* Properties of the keyspace under Spec.                                  *)
(***************************************************************************)
\* The stores in which key exists at time t (an expired string entry does
\* not count as existing).
StoresHolding(st, key, t) ==
    (IF key \in StoreKeys(st.str, t) THEN {"string"} ELSE {})
    \cup (IF ListKeyType(st.list, key) = "list" THEN {"list"} ELSE {})
    \cup (IF HashKeyType(st.hash, key) = "hash" THEN {"hash"} ELSE {})
    \cup (IF SetKeyType(st.set, key) = "set" THEN {"set"} ELSE {})

\* C1: after any sequence of commands, no key exists in two of the four
\* stores (string, list, hash, set) at once.
C1_KeyInAtMostOneStore ==
    \A key \in Keys : Cardinality(StoresHolding(St, key, now)) <= 1

\* The list, hash and set commands with the argument lists the model draws,
\* as <<name, args>>.
ContainerCommands ==
    ({"LPUSH", "RPUSH"} \X PushArgs)
    \cup ({"LPOP", "RPOP", "LLEN", "HGETALL", "HKEYS", "HLEN", "SMEMBERS", "SCARD"}
             \X KeyArgs)
    \cup ({"LRANGE"} \X LRangeArgs)
    \cup ({"HSET"} \X HSetArgs) \cup ({"HGET"} \X HGetArgs) \cup ({"HDEL"} \X HDelArgs)
    \cup ({"SADD", "SREM"} \X MemberArgs) \cup ({"SISMEMBER"} \X SIsMemberArgs)
    \cup ({"SINTER"} \X KeysArgs)

\* The number of arguments the handler of cmd accepts.
ArityAccepted(cmd, args) ==
    CASE cmd \in {"LPUSH", "RPUSH", "SADD", "SREM", "HDEL"} -> Len(args) >= 2
      [] cmd = "HSET" -> Len(args) >= 3 /\ (Len(args) - 1) % 2 = 0
      [] cmd \in {"HGET", "SISMEMBER"} -> Len(args) = 2
      [] cmd = "LRANGE" -> Len(args) = 3
      [] cmd = "SINTER" -> Len(args) >= 1
      [] OTHER -> Len(args) = 1

\* The keys a command names: every argument of SINTER, else the first.
KeysOf(cmd, args) == IF cmd = "SINTER" THEN ToSet(args) ELSE {args[1]}

\* C6: a list, hash or set command (with an argument count its handler
\* accepts) on a key that holds an unexpired string is answered with the
\* WRONGTYPE error, and leaves the list, hash and set stores and every
\* string value as they were.
C6_ContainerCommandOnStringKey ==
    \A c \in ContainerCommands :
        (/\ ArityAccepted(c[1], c[2])
         /\ KeysOf(c[1], c[2]) \cap StoreKeys(strData, now) # {})
        => \A order \in MapOrders(St, c[1], c[2]) :
               LET r == executeCommand(St, now, c[1], c[2], order)
               IN  /\ r.reply = respError(wrongTypeError)
                   /\ r.st.list = listData
                   /\ r.st.hash = hashData
                   /\ r.st.set = setData
                   /\ removeExpired(r.st.str, now) = removeExpired(strData, now)

\* A state in which a key holds a string next to a list, and LPUSH, HSET
\* and SADD on it are each answered WRONGTYPE.
C6_Witness ==
    \E key \in StoreKeys(strData, now) :
        /\ ListKeyType(listData, key) = "list"
        /\ \A c \in {<<"LPUSH", <<key, "a">> >>, <<"HSET", <<key, "f", "a">> >>,
                      <<"SADD", <<key, "a">> >>} :
               executeCommand(St, now, c[1], c[2], <<>>).reply = respError(wrongTypeError)

\* C7: SET, with or without EX, on a key that holds a list, hash or set is
\* answered with the WRONGTYPE error and leaves the stores as they were.
C7_SetOnContainerKey ==
    \A args \in SetArgs :
        (/\ Len(args) \in {2, 4}
         /\ StoresHolding(St, args[1], now) \cap {"list", "hash", "set"} # {})
        => LET r == executeCommand(St, now, "SET", args, <<>>)
           IN  /\ r.reply = respError(wrongTypeError)
               /\ r.st = St

(***************************************************************************)
(* SpecTTL: the string commands of two connections step by step.  Each     *)
(* connection runs its handler in its own goroutine; the store's lock is   *)
(* held for one store call at most, so a step is one locked section of the *)
(* store.  store.Get reads the entry under the read lock and, when it      *)
(* finds the entry expired, calls Delete afterwards; handleTTL calls       *)
(* store.Get and then store.TTL; handleExpire calls store.Get and then     *)
(* store.SetWithTTL.  Sweep is one pass of cleanupLoop.                    *)
(***************************************************************************)
TTLKeys == {"x"}

At(c, op, step, key, value, secs) ==
    [pc EXCEPT ![c] = [op |-> op, step |-> step, key |-> key, value |-> value,
                        secs |-> secs]]

\* The read-locked section of store.Get for the handler op of connection c:
\* absentReply when there is no entry, on to the lazy delete when the entry
\* is expired.
GetStart(c, op, key) ==
    /\ pc[c] = Idle
    /\ UNCHANGED <<storeVars, now, txVars, snapVars, extVars>>

\* handleGet.
GetRead(c, key) ==
    /\ GetStart(c, "GET", key)
    /\ IF key \notin DOMAIN strData
       THEN reply' = respNullBulkString /\ UNCHANGED pc
       ELSE IF isExpired(strData[key], now)
       THEN pc' = At(c, "GET", "delete", key, "", 0) /\ UNCHANGED reply
       ELSE reply' = respBulkString(strData[key].value) /\ UNCHANGED pc

\* handleTTL up to the return of store.Get's read.
TTLRead(c, key) ==
    /\ GetStart(c, "TTL", key)
    /\ IF key \notin DOMAIN strData
       THEN reply' = respInteger(-2) /\ UNCHANGED pc
       ELSE IF isExpired(strData[key], now)
       THEN pc' = At(c, "TTL", "delete", key, "", 0) /\ UNCHANGED reply
       ELSE pc' = At(c, "TTL", "ttl", key, "", 0) /\ UNCHANGED reply

\* handleExpire up to the return of store.Get's read (seconds parsed).
ExpireRead(c, key, secs) ==
    /\ GetStart(c, "EXPIRE", key)
    /\ IF key \notin DOMAIN strData
       THEN reply' = respInteger(0) /\ UNCHANGED pc
       ELSE IF isExpired(strData[key], now)
       THEN pc' = At(c, "EXPIRE", "delete", key, "", secs) /\ UNCHANGED reply
       ELSE pc' = At(c, "EXPIRE", "set", key, strData[key].value, secs)
            /\ UNCHANGED reply

\* The Delete that store.Get makes of the entry it found expired, and the
\* handler's reply for an absent key.
LazyDelete(c) ==
    /\ pc[c].step = "delete"
    /\ strData' = Delete(strData, pc[c].key).data
    /\ reply' = CASE pc[c].op = "GET" -> respNullBulkString
                  [] pc[c].op = "TTL" -> respInteger(-2)
                  [] OTHER -> respInteger(0)
    /\ pc' = [pc EXCEPT ![c] = Idle]
    /\ UNCHANGED <<listData, hashData, setData, now, txVars, snapVars, extVars>>

\* handleTTL from its call of store.TTL to its reply.
TTLFinish(c) ==
    /\ pc[c].op = "TTL" /\ pc[c].step = "ttl"
    /\ LET r == TTL(strData, pc[c].key, now)
       IN  reply' = IF ~r.ok THEN respInteger(-1) ELSE respInteger(r.ttl \div Second)
    /\ pc' = [pc EXCEPT ![c] = Idle]
    /\ UNCHANGED <<storeVars, now, txVars, snapVars, extVars>>

\* handleExpire from its call of store.SetWithTTL to its reply.
ExpireFinish(c) ==
    /\ pc[c].op = "EXPIRE" /\ pc[c].step = "set"
    /\ strData' = SetWithTTL(strData, pc[c].key, pc[c].value,
                           pc[c].secs * Second, now)
    /\ reply' = respInteger(1)
    /\ pc' = [pc EXCEPT ![c] = Idle]
    /\ UNCHANGED <<listData, hashData, setData, now, txVars, snapVars, extVars>>

\* handleSet and handleDel make one store call each.
SetCmd(c, args) ==
    /\ pc[c] = Idle
    /\ Apply(handleSet(St, now, args))
    /\ reply' = handleSet(St, now, args).reply
    /\ UNCHANGED <<now, pc, txVars, snapVars, extVars>>

DelCmd(c, key) ==
    /\ pc[c] = Idle
    /\ Apply(handleDel(St, now, <<key>>))
    /\ reply' = handleDel(St, now, <<key>>).reply
    /\ UNCHANGED <<now, pc, txVars, snapVars, extVars>>

\* cleanupLoop's ticker fires: removeExpired.
Sweep ==
    /\ strData' = removeExpired(strData, now)
    /\ UNCHANGED <<listData, hashData, setData, now, reply, pc, txVars, snapVars, extVars>>

TTLSetArgs ==
    {<<key, v>> : key \in TTLKeys, v \in Vals}
    \cup {<<key, v, "EX", "1">> : key \in TTLKeys, v \in Vals}

InitTTL == Init

NextTTL ==
    \/ \E c \in Conns, key \in TTLKeys : GetRead(c, key)
    \/ \E c \in Conns, key \in TTLKeys : TTLRead(c, key)
    \/ \E c \in Conns, key \in TTLKeys : ExpireRead(c, key, 1)
    \/ \E c \in Conns : LazyDelete(c)
    \/ \E c \in Conns : TTLFinish(c)
    \/ \E c \in Conns : ExpireFinish(c)
    \/ \E c \in Conns, args \in TTLSetArgs : SetCmd(c, args)
    \/ \E c \in Conns, key \in TTLKeys : DelCmd(c, key)
    \/ Sweep
    \/ Tick

SpecTTL == InitTTL /\ [][NextTTL]_vars

\* The step in which connection c's TTL command on key replies.
TTLReplies(c, key) ==
    \/ TTLRead(c, key) /\ pc'[c] = Idle
    \/ pc[c].op = "TTL" /\ pc[c].key = key /\ (LazyDelete(c) \/ TTLFinish(c))

\* C9: whenever the TTL command on a key replies -1, a GET of the key at that
\* point finds a value, and whenever it replies -2, a GET finds none, however
\* the command is interleaved with the clock passing the key's expiry, the
\* sweeper and the other connection's commands on the key.
C9_TTLReplyAgreesWithGet ==
    [][\A c \in Conns, key \in TTLKeys :
          TTLReplies(c, key) =>
              /\ reply' = respInteger(-1) => Get(strData', key, now').ok
              /\ reply' = respInteger(-2) => ~Get(strData', key, now').ok]_vars

(***************************************************************************)
(* Version tracker (MemoryVersionTracker).                                 *)
(***************************************************************************)
GetVersion(v, key) == IF key \in DOMAIN v THEN v[key] ELSE 0

IncrementVersion(v, key) == MapPut(v, key, GetVersion(v, key) + 1)

DeleteVersion(v, key) == IF key \in DOMAIN v THEN MapDelete(v, key) ELSE v

(***************************************************************************)
(* Transaction engine: a Transaction is [inMulti, queue, watching]; an     *)
(* operation yields the Transaction afterwards and its error ("" is nil).  *)
(***************************************************************************)
ErrNestedMulti == "ERR MULTI calls can not be nested"
ErrExecWithoutMulti == "ERR EXEC without MULTI"
ErrDiscardWithoutMulti == "ERR DISCARD without MULTI"
ErrWatchInsideMulti == "ERR WATCH inside MULTI is not allowed"
ErrNotInMulti == "ERR not in MULTI"

resetLocked_KeepWatching(t) == [t EXCEPT !.inMulti = FALSE, !.queue = <<>>]
resetLocked(t) == NewTransaction

Begin_ClearsQueue(t) ==
    IF t.inMulti THEN [tx |-> [t EXCEPT !.queue = <<>>], err |-> ErrNestedMulti]
    ELSE [tx |-> [t EXCEPT !.inMulti = TRUE, !.queue = <<>>], err |-> ""]
Begin(t) ==
    IF t.inMulti THEN [tx |-> t, err |-> ErrNestedMulti]
    ELSE [tx |-> [t EXCEPT !.inMulti = TRUE, !.queue = <<>>], err |-> ""]

InTransaction(t) == t.inMulti

Queue(t, cmd, args) ==
    IF ~t.inMulti THEN [tx |-> t, err |-> ErrNotInMulti]
    ELSE [tx |-> [t EXCEPT !.queue = Append(@, [Name |-> cmd, Args |-> args])],
          err |-> ""]

checkWatchLocked_OnlyNewer(t, v) ==
    \A key \in DOMAIN t.watching : GetVersion(v, key) <= t.watching[key]
checkWatchLocked(t, v) ==
    \A key \in DOMAIN t.watching : GetVersion(v, key) = t.watching[key]

Exec_AbortsAtError(t, v, outcomes) ==
    IF ~t.inMulti
    THEN [tx |-> t, results |-> <<>>, nil |-> TRUE, err |-> ErrExecWithoutMulti,
          ran |-> FALSE]
    ELSE IF ~checkWatchLocked(t, v)
    THEN [tx |-> resetLocked(t), results |-> <<>>, nil |-> TRUE, err |-> "",
          ran |-> FALSE]
    ELSE [tx |-> resetLocked(t),
          results |-> LET errs == {j \in 1..Len(t.queue) : outcomes[j].err # ""}
                          n == IF errs = {} THEN Len(t.queue)
                               ELSE CHOOSE j \in errs : \A k \in errs : j <= k
                      IN  [i \in 1..n |->
                              IF outcomes[i].err # "" THEN respError(outcomes[i].err)
                              ELSE outcomes[i].value],
          nil |-> FALSE, err |-> "", ran |-> TRUE]

\* Exec, given the result of the executor on each queued command in order
\* (outcomes[i] is [value, err]); ran tells whether the executor was invoked,
\* nil whether the results are nil.
Exec(t, v, outcomes) ==
    IF ~t.inMulti
    THEN [tx |-> t, results |-> <<>>, nil |-> TRUE, err |-> ErrExecWithoutMulti,
          ran |-> FALSE]
    ELSE IF ~checkWatchLocked(t, v)
    THEN [tx |-> resetLocked(t), results |-> <<>>, nil |-> TRUE, err |-> "",
          ran |-> FALSE]
    ELSE [tx |-> resetLocked(t),
          results |-> [i \in 1..Len(t.queue) |->
                          IF outcomes[i].err # "" THEN respError(outcomes[i].err)
                          ELSE outcomes[i].value],
          nil |-> FALSE, err |-> "", ran |-> TRUE]

Discard(t) ==
    IF ~t.inMulti THEN [tx |-> t, err |-> ErrDiscardWithoutMulti]
    ELSE [tx |-> resetLocked(t), err |-> ""]

Watch(t, v, keys) ==
    IF t.inMulti THEN [tx |-> t, err |-> ErrWatchInsideMulti]
    ELSE [tx |-> [t EXCEPT !.watching =
                     [key \in DOMAIN t.watching \cup ToSet(keys) |->
                         IF key \in ToSet(keys) THEN GetVersion(v, key)
                         ELSE t.watching[key]]],
          err |-> ""]

Unwatch(t) == [t EXCEPT !.watching = <<>>]

(***************************************************************************)
(* TransactionHandler, constructed with a version tracker: a handler       *)
(* yields the Transaction afterwards and the reply.                        *)
(***************************************************************************)
HandleMulti(t, args) ==
    IF Len(args) # 0
    THEN [tx |-> t, reply |-> respError("ERR wrong number of arguments for 'multi' command")]
    ELSE LET r == Begin(t)
         IN  [tx |-> r.tx,
              reply |-> IF r.err # "" THEN respError(r.err) ELSE respSimpleString("OK")]

HandleExec(t, v, args, outcomes) ==
    IF Len(args) # 0
    THEN [tx |-> t, ran |-> FALSE,
          reply |-> respError("ERR wrong number of arguments for 'exec' command")]
    ELSE LET r == Exec(t, v, outcomes)
         IN  [tx |-> r.tx, ran |-> r.ran,
              reply |-> IF r.err # "" THEN respError(r.err)
                        ELSE IF r.nil THEN respNullArray
                        ELSE respArray(r.results)]

HandleDiscard(t, args) ==
    IF Len(args) # 0
    THEN [tx |-> t, reply |-> respError("ERR wrong number of arguments for 'discard' command")]
    ELSE LET r == Discard(t)
         IN  [tx |-> r.tx,
              reply |-> IF r.err # "" THEN respError(r.err) ELSE respSimpleString("OK")]

HandleWatch(t, v, args) ==
    IF Len(args) < 1
    THEN [tx |-> t, reply |-> respError("ERR wrong number of arguments for 'watch' command")]
    ELSE LET r == Watch(t, v, args)
         IN  [tx |-> r.tx,
              reply |-> IF r.err # "" THEN respError(r.err) ELSE respSimpleString("OK")]

HandleUnwatch(t, args) ==
    IF Len(args) # 0
    THEN [tx |-> t, reply |-> respError("ERR wrong number of arguments for 'unwatch' command")]
    ELSE [tx |-> Unwatch(t), reply |-> respSimpleString("OK")]

QueueCommand(t, cmd, args) ==
    LET r == Queue(t, cmd, args)
    IN  [tx |-> r.tx,
         reply |-> IF r.err # "" THEN respError(r.err) ELSE respSimpleString("QUEUED")]

IsTransactionCommand_NoUnwatch(cmd) == cmd \in {"MULTI", "EXEC", "DISCARD", "WATCH"}
IsTransactionCommand(cmd) == cmd \in {"MULTI", "EXEC", "DISCARD", "WATCH", "UNWATCH"}

(***************************************************************************)
(* SpecTxEngine: one TransactionHandler and the version tracker it shares, *)
(* driven as their callers may drive them: the handler's operations in any *)
(* order, IncrementVersion and DeleteVersion on any key in between.  The   *)
(* executor handed to HandleExec is the mock executor of the handler's     *)
(* tests.                                                                  *)
(***************************************************************************)
EngineConns == {"A"}

mockExecutor(cmd, args) ==
    [value |-> CASE cmd = "SET" -> respSimpleString("OK")
                 [] cmd = "GET" -> respBulkString("value1")
                 [] OTHER -> respSimpleString("OK"),
     err |-> ""]

MockOutcomes(queue) ==
    [i \in 1..Len(queue) |-> mockExecutor(queue[i].Name, queue[i].Args)]

\* The history variable after connection c's Transaction became t: a key
\* stays marked while it stays watched.
StillDirty(c, t) == [dirty EXCEPT ![c] = @ \cap DOMAIN t.watching]

\* The history variable after a mutation of key was recorded.
NowDirty(key) ==
    [c \in Conns |-> IF key \in DOMAIN tx[c].watching THEN dirty[c] \cup {key}
                     ELSE dirty[c]]

TxMulti(c) ==
    /\ LET r == HandleMulti(tx[c], <<>>)
       IN  /\ tx' = [tx EXCEPT ![c] = r.tx]
           /\ reply' = r.reply
    /\ invoked' = <<>>
    /\ UNCHANGED <<storeVars, now, pc, versions, dirty, snapVars, extVars>>

TxQueue(c, cmd, args) ==
    /\ Len(tx[c].queue) < MaxQueue
    /\ LET r == QueueCommand(tx[c], cmd, args)
       IN  /\ tx' = [tx EXCEPT ![c] = r.tx]
           /\ reply' = r.reply
    /\ invoked' = <<>>
    /\ UNCHANGED <<storeVars, now, pc, versions, dirty, snapVars, extVars>>

TxExec(c) ==
    /\ LET r == HandleExec(tx[c], versions, <<>>, MockOutcomes(tx[c].queue))
       IN  /\ tx' = [tx EXCEPT ![c] = r.tx]
           /\ reply' = r.reply
           /\ invoked' = IF r.ran THEN tx[c].queue ELSE <<>>
           /\ dirty' = StillDirty(c, r.tx)
    /\ UNCHANGED <<storeVars, now, pc, versions, snapVars, extVars>>

TxDiscard(c) ==
    /\ LET r == HandleDiscard(tx[c], <<>>)
       IN  /\ tx' = [tx EXCEPT ![c] = r.tx]
           /\ reply' = r.reply
           /\ dirty' = StillDirty(c, r.tx)
    /\ invoked' = <<>>
    /\ UNCHANGED <<storeVars, now, pc, versions, snapVars, extVars>>

TxWatch(c, keys) ==
    /\ LET r == HandleWatch(tx[c], versions, keys)
       IN  /\ tx' = [tx EXCEPT ![c] = r.tx]
           /\ reply' = r.reply
           /\ dirty' = IF r.reply = respSimpleString("OK")
                       THEN [dirty EXCEPT ![c] = @ \ ToSet(keys)]
                       ELSE dirty
    /\ invoked' = <<>>
    /\ UNCHANGED <<storeVars, now, pc, versions, snapVars, extVars>>

TxUnwatch(c) ==
    /\ LET r == HandleUnwatch(tx[c], <<>>)
       IN  /\ tx' = [tx EXCEPT ![c] = r.tx]
           /\ reply' = r.reply
           /\ dirty' = StillDirty(c, r.tx)
    /\ invoked' = <<>>
    /\ UNCHANGED <<storeVars, now, pc, versions, snapVars, extVars>>

\* A mutation of key is recorded with the tracker.
VtIncrementVersion(key) ==
    /\ GetVersion(versions, key) < MaxVersion
    /\ versions' = IncrementVersion(versions, key)
    /\ dirty' = NowDirty(key)
    /\ UNCHANGED <<storeVars, now, reply, pc, tx, invoked, snapVars, extVars>>

\* The deletion of key is recorded with the tracker.
VtDeleteVersion(key) ==
    /\ versions' = DeleteVersion(versions, key)
    /\ dirty' = IF key \in DOMAIN versions THEN NowDirty(key) ELSE dirty
    /\ UNCHANGED <<storeVars, now, reply, pc, tx, invoked, snapVars, extVars>>

QueuedCommands == {<<"SET", <<"x", "1">> >>, <<"GET", <<"x">> >>}
WatchArgs == SeqsOf(Keys, 1, MaxArgs)

InitTxEngine == Init

NextTxEngine ==
    \/ \E c \in EngineConns : TxMulti(c)
    \/ \E c \in EngineConns, q \in QueuedCommands : TxQueue(c, q[1], q[2])
    \/ \E c \in EngineConns : TxExec(c)
    \/ \E c \in EngineConns : TxDiscard(c)
    \/ \E c \in EngineConns, keys \in WatchArgs : TxWatch(c, keys)
    \/ \E c \in EngineConns : TxUnwatch(c)
    \/ \E key \in Keys : VtIncrementVersion(key)
    \/ \E key \in Keys : VtDeleteVersion(key)

SpecTxEngine == InitTxEngine /\ [][NextTxEngine]_vars

\* Some watched key's current version differs from the version recorded for
\* it at WATCH time.
WatchedVersionDiffers(t, v) ==
    \E key \in DOMAIN t.watching : GetVersion(v, key) # t.watching[key]

\* C3: EXEC in Queueing state replies a null array, with the executor
\* invoked on no queued command, if and only if some watched key's current
\* version differs from the version recorded at WATCH time; otherwise the
\* executor is invoked on every queued command, in order, and the reply is
\* the array of their results.
C3_ExecAbortsIffWatchedVersionDiffers ==
    [][\A c \in EngineConns :
          (tx[c].inMulti /\ TxExec(c)) =>
              /\ reply' = respNullArray <=> WatchedVersionDiffers(tx[c], versions)
              /\ WatchedVersionDiffers(tx[c], versions) => invoked' = <<>>
              /\ ~WatchedVersionDiffers(tx[c], versions) =>
                     /\ invoked' = tx[c].queue
                     /\ reply'.type = "array" /\ ~reply'.null
                     /\ Len(reply'.array) = Len(tx[c].queue)]_vars

\* EXEC has just replied a null array, the executor not invoked, with a
\* version recorded in the tracker.
C3_Witness ==
    /\ reply = respNullArray
    /\ invoked = <<>>
    /\ \E key \in Keys : GetVersion(versions, key) > 0
    /\ \A c \in EngineConns : ~tx[c].inMulti

\* C4: for a connection that ran WATCH and MULTI, EXEC replies a non-null
\* array if and only if no mutation of a watched key was recorded with the
\* tracker (IncrementVersion, or DeleteVersion of a key it holds) between the
\* WATCH of that key and the EXEC, whatever the sequence of those operations;
\* in particular a WATCH of a key without a version detects its creation.
C4_ExecNonNullIffNoMutationSinceWatch ==
    [][\A c \in EngineConns :
          (tx[c].inMulti /\ DOMAIN tx[c].watching # {} /\ TxExec(c)) =>
              ((reply'.type = "array" /\ ~reply'.null) <=> dirty[c] = {})]_vars

(***************************************************************************)
(* SpecTx: two connections of the server, each with its own                *)
(* TransactionHandler, sharing the string store and the version tracker.   *)
(* The connection loop routes a request as the specification words it:     *)
(* in Queueing state a command other than MULTI, EXEC, DISCARD, WATCH and  *)
(* UNWATCH is queued; otherwise the five go to the TransactionHandler and  *)
(* the rest to executeCommand, which is also the executor handed to        *)
(* HandleExec.  The handlers are the server's: none of them calls the      *)
(* version tracker.                                                        *)
(***************************************************************************)
TxKeys == {"x"}
TxVals == {"1", "9"}

\* The requests a connection sends, as <<name, args>>.
ServerCommands ==
    {<<"MULTI", <<>> >>, <<"multi", <<>> >>, <<"EXEC", <<>> >>, <<"DISCARD", <<>> >>,
     <<"UNWATCH", <<>> >>}
    \cup {<<"WATCH", <<key>> >> : key \in TxKeys}
    \cup {<<"GET", <<key>> >> : key \in TxKeys}
    \cup {<<"SET", <<key, v>> >> : key \in TxKeys, v \in TxVals}

\* The executor the connection loop hands to HandleExec, run on the queue
\* from position i on: acc is [st, outcomes].
RECURSIVE RunQueue(_, _, _, _)
RunQueue(acc, t, queue, i) ==
    IF i > Len(queue) THEN acc
    ELSE LET r == executeCommand(acc.st, t, queue[i].Name, queue[i].Args, <<>>)
         IN  RunQueue([st |-> r.st,
                       outcomes |-> Append(acc.outcomes, [value |-> r.reply, err |-> ""])],
                      t, queue, i + 1)

\* The keys written by the commands cmds, whose replies are replies.
Written(cmds, replies) ==
    {cmds[i].Args[1] : i \in {j \in 1..Len(cmds) :
                                 /\ cmds[j].Name = "SET"
                                 /\ replies[j] = respSimpleString("OK")}}

\* The history variable after connection c's step left its Transaction as
\* t, cleared the marks of the keys in rewatched, and wrote the keys in
\* written.
DirtyAfter(c, t, rewatched, written) ==
    [a \in Conns |->
        IF a = c THEN (dirty[c] \cap DOMAIN t.watching) \ rewatched
        ELSE dirty[a] \cup (written \cap DOMAIN tx[a].watching)]

\* Route 1: the command is queued.
CmdQueue(c, name, args) ==
    /\ InTransaction(tx[c]) /\ ~IsTransactionCommand(ToUpper(name))
    /\ Len(tx[c].queue) < MaxQueue
    /\ LET r == QueueCommand(tx[c], ToUpper(name), args)
       IN  /\ tx' = [tx EXCEPT ![c] = r.tx]
           /\ reply' = r.reply
    /\ invoked' = <<>>
    /\ UNCHANGED <<storeVars, now, pc, versions, dirty, snapVars, extVars>>

\* Route 3, for the five transaction commands.
CmdTransaction(c, name, args) ==
    /\ IsTransactionCommand(ToUpper(name))
    /\ LET cmd == ToUpper(name)
           run == RunQueue([st |-> St, outcomes |-> <<>>], now, tx[c].queue, 1)
           r == CASE cmd = "MULTI" -> HandleMulti(tx[c], args) @@ [ran |-> FALSE]
                  [] cmd = "EXEC" -> HandleExec(tx[c], versions, args, run.outcomes)
                  [] cmd = "DISCARD" -> HandleDiscard(tx[c], args) @@ [ran |-> FALSE]
                  [] cmd = "WATCH" -> HandleWatch(tx[c], versions, args) @@ [ran |-> FALSE]
                  [] OTHER -> HandleUnwatch(tx[c], args) @@ [ran |-> FALSE]
       IN  /\ tx' = [tx EXCEPT ![c] = r.tx]
           /\ reply' = r.reply
           /\ invoked' = IF r.ran THEN tx[c].queue ELSE <<>>
           /\ IF r.ran THEN Apply(run) ELSE UNCHANGED storeVars
           /\ dirty' = DirtyAfter(c, r.tx,
                                  IF cmd = "WATCH" /\ r.reply = respSimpleString("OK")
                                  THEN ToSet(args) ELSE {},
                                  IF r.ran THEN Written(tx[c].queue, r.reply.array)
                                  ELSE {})
    /\ UNCHANGED <<now, pc, versions, snapVars, extVars>>

\* Route 3, for every other command.
CmdExecute(c, name, args) ==
    /\ ~InTransaction(tx[c]) /\ ~IsTransactionCommand(ToUpper(name))
    /\ LET r == executeCommand(St, now, name, args, <<>>)
       IN  /\ Apply(r)
           /\ reply' = r.reply
           /\ dirty' = DirtyAfter(c, tx[c], {},
                                  Written(<<[Name |-> ToUpper(name), Args |-> args]>>,
                                          <<r.reply>>))
    /\ invoked' = <<>>
    /\ UNCHANGED <<now, pc, tx, versions, snapVars, extVars>>

\* One request of connection c, from its decoding to its reply.
Command(c, name, args) ==
    \/ CmdQueue(c, name, args)
    \/ CmdTransaction(c, name, args)
    \/ CmdExecute(c, name, args)

InitTx == Init

NextTx == \E c \in Conns, cm \in ServerCommands : Command(c, cm[1], cm[2])

SpecTx == InitTx /\ [][NextTx]_vars

\* C2: if a connection has watched a key, entered MULTI and queued commands,
\* and another connection has since executed a SET of that key with success,
\* the connection's EXEC replies a null array and executes none of the
\* queued commands.
C2_ExecAbortsAfterOtherConnectionWrote ==
    [][\A a \in Conns :
          (/\ tx[a].inMulti /\ Len(tx[a].queue) > 0 /\ dirty[a] # {}
           /\ Command(a, "EXEC", <<>>))
          => /\ reply' = respNullArray
             /\ invoked' = <<>>
             /\ storeVars' = storeVars]_vars

Unix(t) == t \div Second
timeUnix(sec) == sec * Second

\* memoryStore.ExportData skips the expired entries and keeps of an expiry
\* its Unix seconds; 0 stands for no expiration.
ExportStrings(d, t) ==
    [key \in StoreKeys(d, t) |->
        [Value |-> d[key].value,
         ExpiresAt |-> IF d[key].expiresAt = ZeroTime THEN 0
                       ELSE Unix(d[key].expiresAt)]]

\* memoryStore.ImportData writes the snapshot's entries into the store, but
\* for those whose expiry lies before t.
ImportStrings(d, snap, t) ==
    LET kept == {key \in DOMAIN snap :
                    ~(snap[key].ExpiresAt > 0 /\ timeUnix(snap[key].ExpiresAt) < t)}
    IN  [key \in DOMAIN d \cup kept |->
            IF key \in kept
            THEN [value |-> snap[key].Value,
                  expiresAt |-> IF snap[key].ExpiresAt > 0
                                THEN timeUnix(snap[key].ExpiresAt) ELSE ZeroTime]
            ELSE d[key]]

\* ImportData of the list and hash stores writes copies of the snapshot's
\* values into the store.
ImportMap(d, snap) ==
    [key \in DOMAIN d \cup DOMAIN snap |->
        IF key \in DOMAIN snap THEN snap[key] ELSE d[key]]

\* MemorySetStore.ExportData lists the members of each set in the order the
\* map iteration yields them: order[key] is that order.
SetOrders(d) ==
    {order \in [DOMAIN d -> UNION {Orderings(d[key]) : key \in DOMAIN d}] :
        \A key \in DOMAIN d : order[key] \in Orderings(d[key])}

ExportSets(d, order) == [key \in DOMAIN d |-> order[key]]

\* MemorySetStore.ImportData builds a set from each list of members.
ImportSets(d, snap) ==
    [key \in DOMAIN d \cup DOMAIN snap |->
        IF key \in DOMAIN snap THEN ToSet(snap[key]) ELSE d[key]]

createSnapshot(st, t, order) ==
    [str |-> ExportStrings(st.str, t), list |-> st.list, hash |-> st.hash,
     set |-> ExportSets(st.set, order)]

\* LoadFrom on a decoded snapshot: ImportData of every store, and the
\* LoadResult.
LoadFrom(st, snapshot, t) ==
    [st |-> [str |-> ImportStrings(st.str, snapshot.str, t),
             list |-> ImportMap(st.list, snapshot.list),
             hash |-> ImportMap(st.hash, snapshot.hash),
             set |-> ImportSets(st.set, snapshot.set)],
     result |-> [StringKeys |-> Cardinality(DOMAIN snapshot.str),
                 ListKeys |-> Cardinality(DOMAIN snapshot.list),
                 HashKeys |-> Cardinality(DOMAIN snapshot.hash),
                 SetKeys |-> Cardinality(DOMAIN snapshot.set)]]

\* make(chan error, 1): buf is the channel's buffer, sent the history of
\* the values sent on it.  A send finds room in the buffer (each channel is
\* sent on once); a receive takes the buffer's head.
NewChan == [buf |-> <<>>, sent |-> <<>>]
Send(ch, done, err) ==
    [ch EXCEPT ![done] = [buf |-> Append(@.buf, err), sent |-> Append(@.sent, err)]]
Receive(ch, done) == [ch EXCEPT ![done].buf = Tail(@)]

ErrSaveInProgress == "background save already in progress"
ErrNoSnapshot == "no snapshot file found"

\* The names of the two files in the variable files.
snapshotPath == "path"
tmpPath_InPlace == "path"
tmpPath == "tmp"

\* os.Create, a complete Encode, os.Remove and os.Rename on the files f.
osCreate(f, name) ==
    [f EXCEPT ![name] = [exists |-> TRUE, complete |-> FALSE, data |-> <<>>]]

Encode(f, name, snapshot) ==
    [f EXCEPT ![name] = [exists |-> TRUE, complete |-> TRUE, data |-> snapshot]]

osRemove(f, name) == [f EXCEPT ![name] = NoFile]

osRename(f, old, new) ==
    IF old = new THEN f
    ELSE [f EXCEPT ![new] = f[old], ![old] = NoFile]

(***************************************************************************)
(* SpecSnapshot: a caller of Save, callers of BackgroundSave with the      *)
(* goroutine it starts, and a caller of Load, next to SET commands that    *)
(* change the store.  writeSnapshot is taken step by step, and each of its *)
(* file operations may fail (ok = FALSE); it runs under Manager.mu.        *)
(***************************************************************************)
Returns(w, err) ==
    writer' = [writer EXCEPT ![w] = [@ EXCEPT !.step = "return", !.err = err]]

Goes(w, step) == writer' = [writer EXCEPT ![w].step = step]

\* Save: Lock, createSnapshot.
SaveLock ==
    /\ writer["save"].step = "" /\ mu = "-"
    /\ mu' = "save"
    /\ \E order \in SetOrders(setData) :
           writer' = [writer EXCEPT !["save"] =
                         [step |-> "create",
                          snapshot |-> createSnapshot(St, now, order), err |-> ""]]
    /\ stale' = IF writer["bgsave"].step # "lock" THEN "no"
                ELSE IF stale = "yes" THEN "yes" ELSE "pending"
    /\ UNCHANGED <<storeVars, now, reply, pc, txVars, files, saving, saveDone, result,
                   waitVars, psVars, srvVars, notStale>>

\* BackgroundSave's locked section.
BgSaveCall_NoCheck ==
    /\ mu = "-"
    /\ Len(chans) < MaxSaves
    /\ saving' = TRUE
    /\ chans' = Append(chans, NewChan)
    /\ saveDone' = Len(chans) + 1
    /\ Goes("bgsave", "snapshot")
    /\ UNCHANGED <<storeVars, now, reply, pc, txVars, files, mu, result, waiter,
                   saved, psVars, srvVars, restVars>>
BgSaveCall ==
    /\ mu = "-"
    /\ IF saving
       THEN /\ result' = [call |-> "BackgroundSave", err |-> ErrSaveInProgress]
            /\ UNCHANGED <<saving, saveDone, writer, chans, restVars>>
       ELSE /\ writer["bgsave"].step = ""
            /\ Len(chans) < MaxSaves
            /\ saving' = TRUE
            /\ chans' = Append(chans, NewChan)
            /\ saveDone' = Len(chans) + 1
            /\ Goes("bgsave", "snapshot")
            /\ UNCHANGED result
    /\ UNCHANGED <<storeVars, now, reply, pc, txVars, files, mu, waiter, saved,
                   psVars, srvVars, restVars>>

\* BackgroundSave: createSnapshot with no lock held, the goroutine started.
BgSnapshot ==
    /\ writer["bgsave"].step = "snapshot"
    /\ \E order \in SetOrders(setData) :
           writer' = [writer EXCEPT !["bgsave"] =
                         [step |-> "lock",
                          snapshot |-> createSnapshot(St, now, order), err |-> ""]]
    /\ result' = [call |-> "BackgroundSave", err |-> ""]
    /\ saved' = [any |-> TRUE, st |-> St, t |-> now]
    /\ stale' = "no"
    /\ UNCHANGED <<storeVars, now, reply, pc, txVars, files, mu, saving, saveDone,
                   chans, waiter, psVars, srvVars, notStale>>

\* The goroutine takes the lock.
BgLock_SnapshotsLate ==
    /\ writer["bgsave"].step = "lock" /\ mu = "-"
    /\ mu' = "bgsave"
    /\ \E order \in SetOrders(setData) :
           writer' = [writer EXCEPT !["bgsave"] =
                         [step |-> "create",
                          snapshot |-> createSnapshot(St, now, order), err |-> ""]]
    /\ UNCHANGED <<storeVars, now, reply, pc, txVars, files, saving, saveDone, result, extVars>>
BgLock ==
    /\ writer["bgsave"].step = "lock" /\ mu = "-"
    /\ mu' = "bgsave"
    /\ Goes("bgsave", "create")
    /\ UNCHANGED <<storeVars, now, reply, pc, txVars, files, saving, saveDone, result, extVars>>

\* writeSnapshot: os.Create(tmpPath).
WsCreate(w, ok) ==
    /\ writer[w].step = "create"
    /\ IF ok THEN files' = osCreate(files, tmpPath) /\ Goes(w, "encode")
       ELSE UNCHANGED files /\ Returns(w, "failed to create temp file")
    /\ UNCHANGED <<storeVars, now, reply, pc, txVars, mu, saving, saveDone, result, extVars>>

\* writeSnapshot: Encode; when it fails, Close and Remove.
WsEncode(w, ok) ==
    /\ writer[w].step = "encode"
    /\ IF ok THEN files' = Encode(files, tmpPath, writer[w].snapshot) /\ Goes(w, "sync")
       ELSE files' = osRemove(files, tmpPath) /\ Returns(w, "failed to encode snapshot")
    /\ UNCHANGED <<storeVars, now, reply, pc, txVars, mu, saving, saveDone, result, extVars>>

\* writeSnapshot: Sync; when it fails, Close and Remove.
WsSync(w, ok) ==
    /\ writer[w].step = "sync"
    /\ IF ok THEN UNCHANGED files /\ Goes(w, "close")
       ELSE files' = osRemove(files, tmpPath) /\ Returns(w, "failed to sync file")
    /\ UNCHANGED <<storeVars, now, reply, pc, txVars, mu, saving, saveDone, result, extVars>>

\* writeSnapshot: Close; when it fails, Remove.
WsClose(w, ok) ==
    /\ writer[w].step = "close"
    /\ IF ok THEN UNCHANGED files /\ Goes(w, "rename")
       ELSE files' = osRemove(files, tmpPath) /\ Returns(w, "failed to close file")
    /\ UNCHANGED <<storeVars, now, reply, pc, txVars, mu, saving, saveDone, result, extVars>>

\* writeSnapshot: Rename; when it fails, Remove.
WsRename(w, ok) ==
    /\ writer[w].step = "rename"
    /\ IF ok THEN files' = osRename(files, tmpPath, snapshotPath) /\ Returns(w, "")
       ELSE files' = osRemove(files, tmpPath) /\ Returns(w, "failed to rename temp file")
    /\ UNCHANGED <<storeVars, now, reply, pc, txVars, mu, saving, saveDone, result, extVars>>

\* Save returns writeSnapshot's error, unlocking.
SaveReturn ==
    /\ writer["save"].step = "return"
    /\ mu' = "-"
    /\ Goes("save", "")
    /\ result' = [call |-> "Save", err |-> writer["save"].err]
    /\ stale' = IF stale # "pending" THEN stale
                ELSE IF writer["save"].err = "" THEN "yes" ELSE "no"
    /\ UNCHANGED <<storeVars, now, reply, pc, txVars, files, saving, saveDone,
                   waitVars, psVars, srvVars, notStale>>

\* The goroutine sends writeSnapshot's error, clears saving and unlocks.
BgReturn ==
    /\ writer["bgsave"].step = "return"
    /\ chans' = Send(chans, saveDone, writer["bgsave"].err)
    /\ saving' = FALSE
    /\ mu' = "-"
    /\ Goes("bgsave", "")
    /\ UNCHANGED <<storeVars, now, reply, pc, txVars, files, saveDone, result,
                   waiter, saved, psVars, srvVars, restVars>>

\* Load: os.Open, Decode, ImportData.
Load ==
    /\ IF ~files[snapshotPath].exists
       THEN /\ result' = [call |-> "Load", err |-> ErrNoSnapshot]
            /\ UNCHANGED storeVars
       ELSE IF ~files[snapshotPath].complete
       THEN /\ result' = [call |-> "Load", err |-> "failed to decode snapshot"]
            /\ UNCHANGED storeVars
       ELSE LET r == LoadFrom(St, files[snapshotPath].data, now)
            IN  /\ result' = [call |-> "Load", err |-> "", result |-> r.result]
                /\ Apply(r)
    /\ UNCHANGED <<now, reply, pc, txVars, files, mu, saving, saveDone, writer, extVars>>

SnapSetArgs == {<<"x", v>> : v \in Vals}

InitSnapshot == Init

NextSnapshot ==
    \/ \E args \in SnapSetArgs : DoSet(args)
    \/ SaveLock
    \/ BgSaveCall
    \/ BgSnapshot
    \/ BgLock
    \/ \E w \in Writers, ok \in BOOLEAN : WsCreate(w, ok)
    \/ \E w \in Writers, ok \in BOOLEAN : WsEncode(w, ok)
    \/ \E w \in Writers, ok \in BOOLEAN : WsSync(w, ok)
    \/ \E w \in Writers, ok \in BOOLEAN : WsClose(w, ok)
    \/ \E w \in Writers, ok \in BOOLEAN : WsRename(w, ok)
    \/ SaveReturn
    \/ BgReturn
    \/ Load

SpecSnapshot == InitSnapshot /\ [][NextSnapshot]_vars

\* A writer is between the creation of its temporary file and the end of
\* writeSnapshot.
InsideWrite(w) == writer[w].step \in {"encode", "sync", "close", "rename"}

WaitCall(w) ==
    /\ waiter[w].step \in {"", "done"}
    /\ mu = "-"
    /\ waiter' = [waiter EXCEPT ![w] =
                     IF saveDone = NilChan
                     THEN [step |-> "done", done |-> NilChan, err |-> ""]
                     ELSE [step |-> "recv", done |-> saveDone, err |-> ""]]
    /\ UNCHANGED <<storeVars, now, reply, pc, txVars, snapVars, chans, saved,
                   psVars, srvVars, restVars>>

\* WaitForSave's receive: return <-done.
WaitRecv(w) ==
    /\ waiter[w].step = "recv"
    /\ chans[waiter[w].done].buf # <<>>
    /\ waiter' = [waiter EXCEPT ![w] =
                     [@ EXCEPT !.step = "done",
                               !.err = Head(chans[waiter[w].done].buf)]]
    /\ chans' = Receive(chans, waiter[w].done)
    /\ UNCHANGED <<storeVars, now, reply, pc, txVars, snapVars, saved, psVars,
                   srvVars, restVars>>

InitWait == Init

BgWrite ==
    \/ BgSnapshot
    \/ BgLock
    \/ \E ok \in BOOLEAN : WsCreate("bgsave", ok)
    \/ \E ok \in BOOLEAN : WsEncode("bgsave", ok)
    \/ \E ok \in BOOLEAN : WsSync("bgsave", ok)
    \/ \E ok \in BOOLEAN : WsClose("bgsave", ok)
    \/ \E ok \in BOOLEAN : WsRename("bgsave", ok)
    \/ BgReturn

NextWait ==
    \/ BgSaveCall
    \/ BgWrite
    \/ \E w \in Waiters : WaitCall(w)
    \/ \E w \in Waiters : WaitRecv(w)

SpecWait ==
    /\ InitWait
    /\ [][NextWait]_vars
    /\ WF_vars(BgWrite)
    /\ \A w \in Waiters : WF_vars(WaitRecv(w))

\* C12: a WaitForSave call that found a background save's channel returns,
\* and returns the error that save sent, whoever else waits and however
\* often WaitForSave is called.
C12_WaitForSaveReturns ==
    \A w \in Waiters :
        (waiter[w].step = "recv") ~>
            (/\ waiter[w].step = "done"
             /\ waiter[w].done # NilChan
             /\ <<waiter[w].err>> = chans[waiter[w].done].sent)

(***************************************************************************)
(* SpecSaveLoad: commands that fill the four stores, the clock, a Save     *)
(* whose file operations all succeed, a new process over the same files,   *)
(* and Load.                                                               *)
(***************************************************************************)
\* Save with every step of writeSnapshot succeeding.
SaveOk ==
    /\ mu = "-"
    /\ writer["save"].step = ""
    /\ \E order \in SetOrders(setData) :
           files' = osRename(Encode(osCreate(files, tmpPath), tmpPath,
                                    createSnapshot(St, now, order)),
                             tmpPath, snapshotPath)
    /\ saved' = [any |-> TRUE, st |-> St, t |-> now]
    /\ result' = [call |-> "Save", err |-> ""]
    /\ UNCHANGED <<storeVars, now, reply, pc, txVars, mu, saving, saveDone, writer,
                   chans, waiter, psVars, srvVars, restVars>>

\* New stores and a new Manager on the path of the old one.
Restart ==
    /\ strData' = <<>> /\ listData' = <<>> /\ hashData' = <<>> /\ setData' = <<>>
    /\ mu' = "-"
    /\ saving' = FALSE
    /\ saveDone' = NilChan
    /\ writer' = [w \in Writers |-> NotWriting]
    /\ result' = [call |-> "", err |-> ""]
    /\ UNCHANGED <<now, reply, pc, txVars, files, extVars>>

SlSetArgs == {<<"x", "a">>, <<"x", "a", "EX", "1">>}

InitSaveLoad == Init

NextSaveLoad ==
    \/ \E args \in SlSetArgs : DoSet(args)
    \/ DoLPush(<<"l", "a", "b">>)
    \/ DoHSet(<<"h", "f", "a">>)
    \/ DoSAdd(<<"s", "a", "b">>)
    \/ Tick
    \/ SaveOk
    \/ Restart
    \/ Load

SpecSaveLoad == InitSaveLoad /\ [][NextSaveLoad]_vars

NoKeys(st) == st.str = <<>> /\ st.list = <<>> /\ st.hash = <<>> /\ st.set = <<>>

\* C13: a Load into empty stores of the snapshot a successful Save wrote
\* restores every list, hash and set as it was, and every string key that
\* was unexpired at the Save, and would still be at the Load, with its value;
\* string entries that had expired at the Save are absent.  (The claim asks
\* this of every key unexpired at the Save; asking it only of those that the
\* saved store would still hold at the Load asks less.)
C13_SaveThenLoadRestores ==
    [][(Load /\ NoKeys(St) /\ saved.any /\ result'.err = "") =>
          /\ listData' = saved.st.list
          /\ hashData' = saved.st.hash
          /\ setData' = saved.st.set
          /\ \A key \in DOMAIN saved.st.str :
                 IF isExpired(saved.st.str[key], saved.t)
                 THEN key \notin DOMAIN strData'
                 ELSE ~isExpired(saved.st.str[key], now) =>
                          /\ Get(strData', key, now).ok
                          /\ Get(strData', key, now).value = saved.st.str[key].value
      ]_vars

\* The keys of the snapshot at the path that the store holds with the
\* snapshot's value.
RestoredStrings(d) ==
    {key \in DOMAIN files[snapshotPath].data.str :
        /\ key \in DOMAIN d
        /\ d[key].value = files[snapshotPath].data.str[key].Value}

\* C14: the counts in Load's result are the numbers of keys of each type
\* that the stores hold from the snapshot after the Load.
C14_LoadCountsAreKeysRestored ==
    [][(Load /\ result'.err = "") =>
          /\ result'.result.StringKeys = Cardinality(RestoredStrings(strData'))
          /\ result'.result.ListKeys =
                 Cardinality(DOMAIN files[snapshotPath].data.list \cap DOMAIN listData')
          /\ result'.result.HashKeys =
                 Cardinality(DOMAIN files[snapshotPath].data.hash \cap DOMAIN hashData')
          /\ result'.result.SetKeys =
                 Cardinality(DOMAIN files[snapshotPath].data.set \cap DOMAIN setData')
      ]_vars

(***************************************************************************)
(* Pub/Sub.  ps is [channels, patterns, subChannels, subPatterns], q the    *)
(* content of every subscriber's Messages channel; the operations return   *)
(* [ps, q, n].                                                             *)
(***************************************************************************)
Message(type, channel, pattern, payload, count) ==
    [Type |-> type, Channel |-> channel, Pattern |-> pattern, Payload |-> payload,
     Count |-> count]

\* select with a default: the send happens when the buffer has room.
sendMessage_Counted(q, sub, msg) ==
    IF Len(q[sub]) < MessageBufferSize
    THEN [q |-> [q EXCEPT ![sub] = Append(@, msg)], ok |-> TRUE]
    ELSE [q |-> q, ok |-> TRUE]
sendMessage(q, sub, msg) ==
    IF Len(q[sub]) < MessageBufferSize
    THEN [q |-> [q EXCEPT ![sub] = Append(@, msg)], ok |-> TRUE]
    ELSE [q |-> q, ok |-> FALSE]

subscriptionCount(ps, sub) ==
    (IF sub \in DOMAIN ps.subChannels THEN Cardinality(ps.subChannels[sub]) ELSE 0)
    + (IF sub \in DOMAIN ps.subPatterns THEN Cardinality(ps.subPatterns[sub]) ELSE 0)

\* m[k] with v added to the set, which is made when k has none.
AddTo(m, k, v) == MapPut(m, k, IF k \in DOMAIN m THEN m[k] \cup {v} ELSE {v})

\* m[k] with v removed from the set, and k removed when the set is empty.
RemoveFrom_KeepsEmpty(m, k, v) ==
    IF k \notin DOMAIN m THEN m
    ELSE [m EXCEPT ![k] = @ \ {v}]
RemoveFrom(m, k, v) ==
    IF k \notin DOMAIN m THEN m
    ELSE IF m[k] \ {v} = {} THEN MapDelete(m, k)
    ELSE [m EXCEPT ![k] = @ \ {v}]

\* The loop of Subscribe over its channels from position i on.
RECURSIVE SubscribeLoop(_, _, _, _)
SubscribeLoop(acc, sub, channels, i) ==
    IF i > Len(channels) THEN acc
    ELSE IF channels[i] \in acc.ps.subChannels[sub]
    THEN SubscribeLoop(
             [acc EXCEPT !.q = sendMessage(acc.q, sub,
                 Message("subscribe", channels[i], "", "",
                         subscriptionCount(acc.ps, sub))).q],
             sub, channels, i + 1)
    ELSE LET ps == [acc.ps EXCEPT
                       !.channels = AddTo(@, channels[i], sub),
                       !.subChannels = AddTo(@, sub, channels[i])]
         IN  SubscribeLoop(
                 [ps |-> ps,
                  q |-> sendMessage(acc.q, sub,
                            Message("subscribe", channels[i], "", "",
                                    subscriptionCount(ps, sub))).q],
                 sub, channels, i + 1)

Subscribe(ps, q, sub, channels) ==
    LET start == IF sub \in DOMAIN ps.subChannels THEN ps
                 ELSE [ps EXCEPT !.subChannels = MapPut(@, sub, {})]
        r == SubscribeLoop([ps |-> start, q |-> q], sub, channels, 1)
    IN  [ps |-> r.ps, q |-> r.q, n |-> subscriptionCount(r.ps, sub)]

\* The loop of Unsubscribe over its channels from position i on.
RECURSIVE UnsubscribeLoop(_, _, _, _)
UnsubscribeLoop(acc, sub, channels, i) ==
    IF i > Len(channels) THEN acc
    ELSE LET ps == [acc.ps EXCEPT
                       !.channels = RemoveFrom(@, channels[i], sub),
                       !.subChannels = RemoveFrom(@, sub, channels[i])]
         IN  UnsubscribeLoop(
                 [ps |-> ps,
                  q |-> sendMessage(acc.q, sub,
                            Message("unsubscribe", channels[i], "", "",
                                    subscriptionCount(ps, sub))).q],
                 sub, channels, i + 1)

\* all is the subscriber's channels in the order the map iteration yields
\* them, used when no channel is named.
Unsubscribe(ps, q, sub, channels, all) ==
    LET chs == IF Len(channels) = 0 THEN all ELSE channels
    IN  IF Len(chs) = 0
        THEN [ps |-> ps,
              q |-> sendMessage(q, sub, Message("unsubscribe", "", "", "",
                                                subscriptionCount(ps, sub))).q,
              n |-> subscriptionCount(ps, sub)]
        ELSE LET r == UnsubscribeLoop([ps |-> ps, q |-> q], sub, chs, 1)
             IN  [ps |-> r.ps, q |-> r.q, n |-> subscriptionCount(r.ps, sub)]

\* The loop of PSubscribe over its patterns from position i on.
RECURSIVE PSubscribeLoop(_, _, _, _)
PSubscribeLoop(acc, sub, pats, i) ==
    IF i > Len(pats) THEN acc
    ELSE IF pats[i] \in acc.ps.subPatterns[sub]
    THEN PSubscribeLoop(
             [acc EXCEPT !.q = sendMessage(acc.q, sub,
                 Message("psubscribe", "", pats[i], "",
                         subscriptionCount(acc.ps, sub))).q],
             sub, pats, i + 1)
    ELSE LET ps == [acc.ps EXCEPT
                       !.patterns = AddTo(@, pats[i], sub),
                       !.subPatterns = AddTo(@, sub, pats[i])]
         IN  PSubscribeLoop(
                 [ps |-> ps,
                  q |-> sendMessage(acc.q, sub,
                            Message("psubscribe", "", pats[i], "",
                                    subscriptionCount(ps, sub))).q],
                 sub, pats, i + 1)

PSubscribe(ps, q, sub, pats) ==
    LET start == IF sub \in DOMAIN ps.subPatterns THEN ps
                 ELSE [ps EXCEPT !.subPatterns = MapPut(@, sub, {})]
        r == PSubscribeLoop([ps |-> start, q |-> q], sub, pats, 1)
    IN  [ps |-> r.ps, q |-> r.q, n |-> subscriptionCount(r.ps, sub)]

\* The loop of PUnsubscribe over its patterns from position i on.
RECURSIVE PUnsubscribeLoop(_, _, _, _)
PUnsubscribeLoop(acc, sub, pats, i) ==
    IF i > Len(pats) THEN acc
    ELSE LET ps == [acc.ps EXCEPT
                       !.patterns = RemoveFrom(@, pats[i], sub),
                       !.subPatterns = RemoveFrom(@, sub, pats[i])]
         IN  PUnsubscribeLoop(
                 [ps |-> ps,
                  q |-> sendMessage(acc.q, sub,
                            Message("punsubscribe", "", pats[i], "",
                                    subscriptionCount(ps, sub))).q],
                 sub, pats, i + 1)

PUnsubscribe(ps, q, sub, pats, all) ==
    LET ptn == IF Len(pats) = 0 THEN all ELSE pats
    IN  IF Len(ptn) = 0
        THEN [ps |-> ps,
              q |-> sendMessage(q, sub, Message("punsubscribe", "", "", "",
                                                subscriptionCount(ps, sub))).q,
              n |-> subscriptionCount(ps, sub)]
        ELSE LET r == PUnsubscribeLoop([ps |-> ps, q |-> q], sub, ptn, 1)
             IN  [ps |-> r.ps, q |-> r.q, n |-> subscriptionCount(r.ps, sub)]

\* The characters of the channel names and patterns the model draws.
Chars(name) ==
    CASE name = "a" -> <<"a">>
      [] name = "b" -> <<"b">>
      [] name = "*" -> <<"*">>
      [] name = "?" -> <<"?">>
      [] name = "b*" -> <<"b", "*">>
      [] OTHER -> <<>>

\* path.Match on patterns made of *, ? and plain characters, on names that
\* hold no slash.
RECURSIVE Match(_, _)
Match(pattern, name) ==
    IF pattern = <<>> THEN name = <<>>
    ELSE IF Head(pattern) = "*"
    THEN \E k \in 0..Len(name) :
             Match(Tail(pattern), SubSeq(name, k + 1, Len(name)))
    ELSE IF name = <<>> THEN FALSE
    ELSE /\ Head(pattern) = "?" \/ Head(pattern) = Head(name)
         /\ Match(Tail(pattern), Tail(name))

matchPattern(pattern, channel) == Match(Chars(pattern), Chars(channel))

\* A loop of Publish over the subscribers S of one channel or pattern: acc
\* is [q, count].  The subscribers of one set are distinct, so the order of
\* the map iteration makes no difference to the result.
RECURSIVE SendToAll(_, _, _)
SendToAll(acc, S, msg) ==
    IF S = {} THEN acc
    ELSE LET sub == CHOOSE x \in S : TRUE
             r == sendMessage(acc.q, sub, msg)
         IN  SendToAll([q |-> r.q,
                        count |-> IF r.ok THEN acc.count + 1 ELSE acc.count],
                       S \ {sub}, msg)

\* The loop of Publish over the patterns, in the order porder of the map
\* iteration, from position i on.
RECURSIVE PublishPatterns(_, _, _, _, _, _)
PublishPatterns(acc, ps, porder, i, channel, message) ==
    IF i > Len(porder) THEN acc
    ELSE IF matchPattern(porder[i], channel)
    THEN PublishPatterns(
             SendToAll(acc, ps.patterns[porder[i]],
                       Message("pmessage", channel, porder[i], message, 0)),
             ps, porder, i + 1, channel, message)
    ELSE PublishPatterns(acc, ps, porder, i + 1, channel, message)

\* The subscribers Publish sends to: those of the channel and those of the
\* patterns that match it.
Matching(ps, channel) ==
    (IF channel \in DOMAIN ps.channels THEN ps.channels[channel] ELSE {})
    \cup UNION {ps.patterns[pattern] :
                  pattern \in {x \in DOMAIN ps.patterns : matchPattern(x, channel)}}

Publish_UnlessFull(ps, q, channel, message, porder) ==
    IF \E sub \in Matching(ps, channel) : Len(q[sub]) >= MessageBufferSize
    THEN [ps |-> ps, q |-> q, n |-> 0]
    ELSE [ps |-> ps,
          q |-> PublishPatterns(
                    IF channel \in DOMAIN ps.channels
                    THEN SendToAll([q |-> q, count |-> 0], ps.channels[channel],
                                   Message("message", channel, "", message, 0))
                    ELSE [q |-> q, count |-> 0],
                    ps, porder, 1, channel, message).q,
          n |-> PublishPatterns(
                    IF channel \in DOMAIN ps.channels
                    THEN SendToAll([q |-> q, count |-> 0], ps.channels[channel],
                                   Message("message", channel, "", message, 0))
                    ELSE [q |-> q, count |-> 0],
                    ps, porder, 1, channel, message).count]
Publish(ps, q, channel, message, porder) ==
    LET exact == IF channel \in DOMAIN ps.channels
                 THEN SendToAll([q |-> q, count |-> 0], ps.channels[channel],
                                Message("message", channel, "", message, 0))
                 ELSE [q |-> q, count |-> 0]
        r == PublishPatterns(exact, ps, porder, 1, channel, message)
    IN  [ps |-> ps, q |-> r.q, n |-> r.count]

(***************************************************************************)
(* SpecPubSub: subscribers that subscribe and unsubscribe, publishers, and *)
(* the consumers of the subscribers' Messages channels.                    *)
(***************************************************************************)
DoSubscribe(sub, channels) ==
    /\ subs' = Subscribe(subs, Messages, sub, channels).ps
    /\ Messages' = Subscribe(subs, Messages, sub, channels).q
    /\ UNCHANGED <<storeVars, now, reply, pc, txVars, snapVars, waitVars, srvVars, restVars>>

DoUnsubscribe(sub, channels) ==
    /\ \E all \in Orderings(IF sub \in DOMAIN subs.subChannels
                             THEN subs.subChannels[sub] ELSE {}) :
           /\ subs' = Unsubscribe(subs, Messages, sub, channels, all).ps
           /\ Messages' = Unsubscribe(subs, Messages, sub, channels, all).q
    /\ UNCHANGED <<storeVars, now, reply, pc, txVars, snapVars, waitVars, srvVars, restVars>>

DoPSubscribe(sub, pats) ==
    /\ subs' = PSubscribe(subs, Messages, sub, pats).ps
    /\ Messages' = PSubscribe(subs, Messages, sub, pats).q
    /\ UNCHANGED <<storeVars, now, reply, pc, txVars, snapVars, waitVars, srvVars, restVars>>

DoPUnsubscribe(sub, pats) ==
    /\ \E all \in Orderings(IF sub \in DOMAIN subs.subPatterns
                             THEN subs.subPatterns[sub] ELSE {}) :
           /\ subs' = PUnsubscribe(subs, Messages, sub, pats, all).ps
           /\ Messages' = PUnsubscribe(subs, Messages, sub, pats, all).q
    /\ UNCHANGED <<storeVars, now, reply, pc, txVars, snapVars, waitVars, srvVars, restVars>>

DoPublish(channel, message) ==
    /\ \E porder \in Orderings(DOMAIN subs.patterns) :
           /\ Messages' = Publish(subs, Messages, channel, message, porder).q
    /\ UNCHANGED <<storeVars, now, reply, pc, txVars, snapVars, waitVars, srvVars, subs, restVars>>

\* The subscriber's connection takes a message from the channel.
Consume(sub) ==
    /\ Messages[sub] # <<>>
    /\ Messages' = [Messages EXCEPT ![sub] = Tail(@)]
    /\ UNCHANGED <<storeVars, now, reply, pc, txVars, snapVars, waitVars, srvVars,
                   subs, restVars>>

Channels == {"a", "b"}
Patterns == {"b*"}
Payloads == {"m"}
SubscribeArgs == {<<"a">>, <<"a", "b">>}
UnsubscribeArgs == {<<>>, <<"a">>}
PSubscribeArgs == {<<pattern>> : pattern \in Patterns}
PUnsubscribeArgs == {<<>>}

InitPubSub == Init

NextPubSub ==
    \/ \E sub \in Subscribers, channels \in SubscribeArgs : DoSubscribe(sub, channels)
    \/ \E sub \in Subscribers, channels \in UnsubscribeArgs : DoUnsubscribe(sub, channels)
    \/ \E sub \in Subscribers, pats \in PSubscribeArgs : DoPSubscribe(sub, pats)
    \/ \E sub \in Subscribers, pats \in PUnsubscribeArgs : DoPUnsubscribe(sub, pats)
    \/ \E channel \in Channels, message \in Payloads : DoPublish(channel, message)
    \/ \E sub \in Subscribers : Consume(sub)

SpecPubSub == InitPubSub /\ [][NextPubSub]_vars

\* The messages a Publish of message on channel adds when it finds room.
Published(channel, message) ==
    {Message("message", channel, "", message, 0)}
    \cup {Message("pmessage", channel, pattern, message, 0) : pattern \in Patterns}

\* The number of messages in the queues q of the subscribers S.
RECURSIVE SumLen(_, _)
SumLen(q, S) ==
    IF S = {} THEN 0
    ELSE LET sub == CHOOSE x \in S : TRUE IN Len(q[sub]) + SumLen(q, S \ {sub})

\* The queue of sub in q2 is its queue in q1 with messages added at the end.
Extends(q1, q2, sub) ==
    /\ Len(q2[sub]) >= Len(q1[sub])
    /\ SubSeq(q2[sub], 1, Len(q1[sub])) = q1[sub]

C16_PublishNeverBlocked ==
    \A channel \in Channels, message \in Payloads :
        /\ ENABLED DoPublish(channel, message)
        /\ \A porder \in Orderings(DOMAIN subs.patterns) :
               LET r == Publish(subs, Messages, channel, message, porder)
               IN  \A sub \in Matching(subs, channel) :
                       Len(Messages[sub]) < MessageBufferSize =>
                           /\ Len(r.q[sub]) > Len(Messages[sub])
                           /\ r.q[sub][Len(Messages[sub]) + 1]
                                  \in Published(channel, message)

\* s1 is subscribed to channel b and its queue is full; the pattern of s2
\* matches b and its queue has room: a Publish on b puts its pmessage on the
\* queue of s2.
C16_Witness ==
    /\ "b" \in DOMAIN subs.channels
    /\ subs.channels["b"] = {"s1"}
    /\ "b*" \in DOMAIN subs.patterns
    /\ subs.patterns["b*"] = {"s2"}
    /\ Len(Messages["s1"]) = MessageBufferSize
    /\ Messages["s2"] = <<>>
    /\ Publish(subs, Messages, "b", "m", <<"b*">>).q["s2"] =
           <<Message("pmessage", "b", "b*", "m", 0)>>

\* The channels and the patterns sub is subscribed to.
ChannelsOf(ps, sub) == IF sub \in DOMAIN ps.subChannels THEN ps.subChannels[sub] ELSE {}
PatternsOf(ps, sub) == IF sub \in DOMAIN ps.subPatterns THEN ps.subPatterns[sub] ELSE {}

\* C17: in every reachable state, Subscribe(sub, channels...) adds to the
\* queue of sub one subscribe confirmation for each channel named, in order,
\* already subscribed or not, each with the channel and the number of
\* channels and patterns sub is subscribed to once that channel is.
C17_SubscribeConfirmsEveryChannel ==
    \A sub \in Subscribers, channels \in SubscribeArgs :
        LET r == Subscribe(subs, Messages, sub, channels)
            conf(i) ==
                Message("subscribe", channels[i], "", "",
                        Cardinality(ChannelsOf(subs, sub)
                                    \cup {channels[j] : j \in 1..i})
                        + Cardinality(PatternsOf(subs, sub)))
        IN  r.q[sub] = Messages[sub] \o [i \in 1..Len(channels) |-> conf(i)]

(***************************************************************************)
(* SpecServer: the accept loop, the connection tasks and Stop, next to     *)
(* clients that connect, send requests and close when they choose to.      *)
(* conn[c] is [state, task, unread]: the client's side of the connection   *)
(* ("none", "dialed", "open", "closed"), the position of the server's task *)
(* for it, and the requests sent that the task has not read.  The server's *)
(* steps are scheduled (weak fairness); the clients' are not.              *)
(***************************************************************************)
\* The client dials; the connection waits in the listener's queue.
Dial(c) ==
    /\ conn[c].state = "none"
    /\ listener
    /\ conn' = [conn EXCEPT ![c].state = "dialed"]
    /\ UNCHANGED <<storeVars, now, reply, pc, txVars, snapVars, waitVars, psVars,
                   quit, listener, wg, stopping, restVars>>

\* acceptConnections: Accept returns the connection.
Accept(c) ==
    /\ conn[c].state = "dialed"
    /\ listener
    /\ conn' = [conn EXCEPT ![c].state = "open", ![c].task = "accepted"]
    /\ UNCHANGED <<storeVars, now, reply, pc, txVars, snapVars, waitVars, psVars,
                   quit, listener, wg, stopping, restVars>>

\* acceptConnections: wg.Add(1); go handleConnection(conn).
Spawn(c) ==
    /\ conn[c].task = "accepted"
    /\ wg' = wg + 1
    /\ conn' = [conn EXCEPT ![c].task = "select"]
    /\ UNCHANGED <<storeVars, now, reply, pc, txVars, snapVars, waitVars, psVars,
                   quit, listener, stopping, restVars>>

\* The client writes a request, or closes the connection.
ClientSend(c, request) ==
    /\ conn[c].state = "open"
    /\ Len(conn[c].unread) < MaxUnread
    /\ conn' = [conn EXCEPT ![c].unread = Append(@, request)]
    /\ UNCHANGED <<storeVars, now, reply, pc, txVars, snapVars, waitVars, psVars,
                   quit, listener, wg, stopping, restVars>>

ClientClose(c) ==
    /\ conn[c].state = "open"
    /\ conn' = [conn EXCEPT ![c].state = "closed"]
    /\ UNCHANGED <<storeVars, now, reply, pc, txVars, snapVars, waitVars, psVars,
                   quit, listener, wg, stopping, restVars>>

\* handleConnection returns: conn.Close() and wg.Done(), deferred.
Return(c) ==
    /\ wg' = wg - 1
    /\ conn' = [conn EXCEPT ![c].task = "done", ![c].state = "closed"]

\* handleConnection: the select on quit at the head of the loop.
ConnSelect(c) ==
    /\ conn[c].task = "select"
    /\ IF quit THEN Return(c)
       ELSE conn' = [conn EXCEPT ![c].task = "parse"] /\ UNCHANGED wg
    /\ UNCHANGED <<storeVars, now, reply, pc, txVars, snapVars, waitVars, psVars,
                   quit, listener, stopping, restVars>>

\* handleConnection: resp.Parse returns, with a request the client sent or
\* with the error of a connection the client closed.
ConnParse(c) ==
    /\ conn[c].task = "parse"
    /\ conn[c].unread # <<>> \/ conn[c].state = "closed"
    /\ IF conn[c].unread # <<>>
       THEN conn' = [conn EXCEPT ![c].task = "execute"] /\ UNCHANGED wg
       ELSE Return(c)
    /\ UNCHANGED <<storeVars, now, reply, pc, txVars, snapVars, waitVars, psVars,
                   quit, listener, stopping, restVars>>

\* handleConnection: executeCommand and conn.Write, which may fail once the
\* client has closed.
ConnExecute(c, written) ==
    /\ conn[c].task = "execute"
    /\ written \/ conn[c].state = "closed"
    /\ \E order \in MapOrders(St, Head(conn[c].unread)[1], Head(conn[c].unread)[2]) :
           LET r == executeCommand(St, now, Head(conn[c].unread)[1],
                                   Head(conn[c].unread)[2], order)
           IN  /\ Apply(r)
               /\ reply' = IF written THEN r.reply ELSE reply
    /\ IF written
       THEN conn' = [conn EXCEPT ![c].task = "select", ![c].unread = Tail(@)]
            /\ UNCHANGED wg
       ELSE /\ wg' = wg - 1
            /\ conn' = [conn EXCEPT ![c].task = "done", ![c].unread = Tail(@)]
    /\ UNCHANGED <<now, pc, txVars, snapVars, waitVars, psVars, quit, listener,
                   stopping, restVars>>

\* Stop: close(quit) and listener.Close(); then wg.Wait().
Stop ==
    /\ stopping = ""
    /\ quit' = TRUE
    /\ listener' = FALSE
    /\ stopping' = "wait"
    /\ UNCHANGED <<storeVars, now, reply, pc, txVars, snapVars, waitVars, psVars,
                   wg, conn, restVars>>

\* Stop: wg.Wait() returns.
StopReturn ==
    /\ stopping = "wait"
    /\ wg = 0
    /\ stopping' = "returned"
    /\ UNCHANGED <<storeVars, now, reply, pc, txVars, snapVars, waitVars, psVars,
                   quit, listener, wg, conn, restVars>>

Requests == {<<"PING", <<>> >>, <<"SET", <<"x", "a">> >>}

\* The goroutines of the server: the accept loop and the task of each
\* connection.
AcceptLoop ==
    \/ \E c \in Clients : Accept(c)
    \/ \E c \in Clients : Spawn(c)

Task(c) ==
    \/ ConnSelect(c)
    \/ ConnParse(c)
    \/ \E written \in BOOLEAN : ConnExecute(c, written)

InitServer == Init

NextServer ==
    \/ \E c \in Clients : Dial(c)
    \/ \E c \in Clients, request \in Requests : ClientSend(c, request)
    \/ \E c \in Clients : ClientClose(c)
    \/ AcceptLoop
    \/ \E c \in Clients : Task(c)
    \/ Stop
    \/ StopReturn

SpecServer ==
    /\ InitServer
    /\ [][NextServer]_vars
    /\ WF_vars(AcceptLoop)
    /\ \A c \in Clients : WF_vars(Task(c))
    /\ WF_vars(StopReturn)

\* C18: once Stop is called, every connection task returns and Stop returns,
\* whatever the clients send or do not send.
C18_StopReturns ==
    (stopping = "wait") ~>
        (/\ stopping = "returned"
         /\ \A c \in Clients : conn[c].task \in {"none", "done"})


(***************************************************************************)
(* The transaction state machine at its edges (SpecTxEngine).              *)
(***************************************************************************)

\* C19: after any EXEC issued in Queueing state, whether it ran the queue or
\* was aborted by WATCH, and after any DISCARD issued in Queueing state, the
\* connection is Idle with an empty queue and an empty watch set.
C19_ExecAndDiscardReturnToIdle ==
    [][\A c \in EngineConns :
          (tx[c].inMulti /\ (TxExec(c) \/ TxDiscard(c))) =>
              /\ ~tx'[c].inMulti
              /\ tx'[c].queue = <<>>
              /\ DOMAIN tx'[c].watching = {}]_vars

\* An EXEC has just been aborted by WATCH (the null array is its reply, no
\* queued command was invoked) and has left its connection Idle.
C19_Witness ==
    /\ reply = respNullArray
    /\ invoked = <<>>
    /\ \E c \in EngineConns : tx[c] = NewTransaction

\* C20: MULTI in Queueing state, WATCH in Queueing state, and EXEC or DISCARD
\* in Idle state each reply with their own error and leave the transaction
\* (mode, queue, watch set) as it was.
C20_MisplacedCommandsChangeNothing ==
    [][\A c \in EngineConns :
          /\ (tx[c].inMulti /\ TxMulti(c)) =>
                 (reply' = respError(ErrNestedMulti) /\ tx'[c] = tx[c])
          /\ \A keys \in WatchArgs :
                 (tx[c].inMulti /\ TxWatch(c, keys)) =>
                     (reply' = respError(ErrWatchInsideMulti) /\ tx'[c] = tx[c])
          /\ (~tx[c].inMulti /\ TxExec(c)) =>
                 (reply' = respError(ErrExecWithoutMulti) /\ tx'[c] = tx[c])
          /\ (~tx[c].inMulti /\ TxDiscard(c)) =>
                 (reply' = respError(ErrDiscardWithoutMulti) /\ tx'[c] = tx[c])]_vars

\* A nested MULTI has just been refused on a connection that is queueing
\* with a command in its queue and a key in its watch set.
C20_Witness ==
    /\ reply = respError(ErrNestedMulti)
    /\ \E c \in EngineConns :
          tx[c].inMulti /\ tx[c].queue # <<>> /\ DOMAIN tx[c].watching # {}


(***************************************************************************)
(* EXEC with an executor that may fail (SpecExec): CommandExecutor is a    *)
(* parameter of Exec, so the outcome of each queued command is an input,   *)
(* either a value or an error.                                             *)
(***************************************************************************)
ExecutorOutcome ==
    {[value |-> respSimpleString("OK"), err |-> ""],
     [value |-> respBulkString("value1"), err |-> ""],
     [value |-> NoReply, err |-> "ERR command failed"]}

ExecutorOutcomes(n) == [1..n -> ExecutorOutcome]

\* HandleExec on connection c with an executor that yields outcomes.
ExecWith(c, outcomes) ==
    /\ LET r == HandleExec(tx[c], versions, <<>>, outcomes)
       IN  /\ tx' = [tx EXCEPT ![c] = r.tx]
           /\ reply' = r.reply
           /\ invoked' = IF r.ran THEN tx[c].queue ELSE <<>>
           /\ dirty' = StillDirty(c, r.tx)
    /\ UNCHANGED <<storeVars, now, pc, versions, snapVars, extVars>>

TxExecAny(c) ==
    \E outcomes \in ExecutorOutcomes(Len(tx[c].queue)) : ExecWith(c, outcomes)

InitExec == Init

NextExec ==
    \/ \E c \in EngineConns : TxMulti(c)
    \/ \E c \in EngineConns, q \in QueuedCommands : TxQueue(c, q[1], q[2])
    \/ \E c \in EngineConns : TxExecAny(c)
    \/ \E c \in EngineConns : TxDiscard(c)
    \/ \E c \in EngineConns, keys \in WatchArgs : TxWatch(c, keys)
    \/ \E key \in Keys : VtIncrementVersion(key)

SpecExec == InitExec /\ [][NextExec]_vars

\* C21: during EXEC an error returned by the executor for one queued command
\* becomes an error value at that command's position of the result array,
\* every later queued command is still executed, and the array has exactly
\* one entry per queued command, in queue order.
C21_ExecutorErrorStaysInPlace ==
    [][\A c \in EngineConns :
          \A outcomes \in ExecutorOutcomes(Len(tx[c].queue)) :
             (tx[c].inMulti /\ checkWatchLocked(tx[c], versions) /\ ExecWith(c, outcomes)) =>
                 /\ reply'.type = "array" /\ ~reply'.null
                 /\ Len(reply'.array) = Len(tx[c].queue)
                 /\ \A i \in 1..Len(tx[c].queue) :
                       reply'.array[i] = IF outcomes[i].err # ""
                                         THEN respError(outcomes[i].err)
                                         ELSE outcomes[i].value
                 /\ invoked' = tx[c].queue]_vars

\* An EXEC of two queued commands has replied an array whose first entry is
\* the executor's error and whose second entry is the second command's value.
C21_Witness ==
    /\ reply.type = "array" /\ ~reply.null
    /\ Len(reply.array) = 2 /\ Len(invoked) = 2
    /\ reply.array[1] = respError("ERR command failed")
    /\ reply.array[2] = respBulkString("value1")


(***************************************************************************)
(* LRange on every list the store can hold (SpecStoreOps), for every pair  *)
(* of indices from below -length to above length.                          *)
(***************************************************************************)
Indices == -(MaxListLen + 2) .. (MaxListLen + 2)

Normalized(length, index) == IF index < 0 THEN length + index ELSE index

Clamped(length, index) ==
    IF index < 0 THEN 0 ELSE IF index > length - 1 THEN length - 1 ELSE index

\* The elements of list at the zero-based positions lo..hi, in order.
Range(list, lo, hi) == [i \in 1..(hi - lo + 1) |-> list[lo + i]]

\* C22: LRange(key, start, stop) returns the elements of the inclusive index
\* range obtained by adding the length to negative indices and then clamping
\* both bounds to [0, length-1], and the empty list if start > stop or
\* start >= length.
C22_LRangeClampsBothBounds ==
    \A key \in DOMAIN listData : \A start \in Indices, stop \in Indices :
        LET length == Len(listData[key])
            s == Normalized(length, start)
            e == Normalized(length, stop)
        IN  length > 0 =>
                LRange(listData, key, start, stop) =
                    IF s > e \/ s >= length THEN <<>>
                    ELSE Range(listData[key], Clamped(length, s), Clamped(length, e))

\* C22, amended: LRange returns, in list order, exactly the elements whose
\* zero-based position lies between the normalized start and the normalized
\* stop, both inclusive: start is raised to 0 and stop is lowered to
\* length-1, but a stop that is still negative after normalization is not
\* raised to 0 and gives the empty list.
C22_LRangeReturnsPositionsInRange ==
    \A key \in DOMAIN listData : \A start \in Indices, stop \in Indices :
        LET list == listData[key]
            s == Normalized(Len(list), start)
            e == Normalized(Len(list), stop)
            inRange == {i \in 0..(Len(list) - 1) : s <= i /\ i <= e}
            elems == LRange(listData, key, start, stop)
        IN  /\ Len(elems) = Cardinality(inRange)
            /\ inRange # {} =>
                  LET lo == CHOOSE i \in inRange : \A j \in inRange : i <= j
                  IN  \A i \in 1..Len(elems) : elems[i] = list[lo + i]

\* A list of at least two elements is stored: a range with negative indices
\* returns its last two elements, a stop beyond the end is lowered to the
\* end, and a range that ends before the list begins is empty.
C22_Witness ==
    \E key \in DOMAIN listData :
        LET list == listData[key]
        IN  /\ Len(list) >= 2
            /\ list[1] # list[2]
            /\ LRange(listData, key, -2, -1) = SubSeq(list, Len(list) - 1, Len(list))
            /\ LRange(listData, key, 1, MaxListLen + 2) = SubSeq(list, 2, Len(list))
            /\ LRange(listData, key, -(MaxListLen + 2), -(MaxListLen + 1)) = <<>>


(***************************************************************************)
(* The RESP codec on bytes.  A byte string is a sequence of one-character  *)
(* strings; a Value is [type, str, num, array, null] with the type byte in *)
(* type and a byte string in str.                                          *)
(***************************************************************************)
TypeSimpleString == "+"
TypeError == "-"
TypeInteger == ":"
TypeBulkString == "$"
TypeArray == "*"

ErrInvalidType == "invalid RESP type"
ErrInvalidFormat == "invalid RESP format"
ErrInvalidLength == "invalid length"
ErrUnexpectedEOF == "unexpected end of input"
ErrInvalidInteger == "invalid integer format"

CR == "\r"
LF == "\n"

Digits == <<"0", "1", "2", "3", "4", "5", "6", "7", "8", "9">>
IsDigit(b) == \E d \in 1..10 : Digits[d] = b
DigitValue(b) == (CHOOSE d \in 1..10 : Digits[d] = b) - 1

\* The value of the decimal digits of line from position i on, after acc.
RECURSIVE DigitsValue(_, _, _)
DigitsValue(line, i, acc) ==
    IF i > Len(line) THEN acc
    ELSE DigitsValue(line, i + 1, acc * 10 + DigitValue(line[i]))

\* strconv.Atoi on a byte string: an optional sign, then one digit or more.
strconvAtoi(line) ==
    LET signed == Len(line) > 0 /\ line[1] \in {"+", "-"}
        first == IF signed THEN 2 ELSE 1
    IN  IF first > Len(line) \/ \E i \in first..Len(line) : ~IsDigit(line[i])
        THEN [n |-> 0, ok |-> FALSE]
        ELSE [n |-> IF signed /\ line[1] = "-" THEN -DigitsValue(line, first, 0)
                    ELSE DigitsValue(line, first, 0),
              ok |-> TRUE]

\* The verb %d of fmt.Sprintf.
RECURSIVE FormatNat(_)
FormatNat(n) ==
    IF n < 10 THEN <<Digits[n + 1]>>
    ELSE FormatNat(n \div 10) \o <<Digits[(n % 10) + 1]>>

FormatInt(n) == IF n < 0 THEN <<"-">> \o FormatNat(-n) ELSE FormatNat(n)

Failed(err) == [value |-> ZeroValue, err |-> err, pos |-> 0]
Parsed(v, pos) == [value |-> v, err |-> "", pos |-> pos]

\* readLine from position pos of the bytes b: [line, err, pos], pos the
\* position after the line feed.
readLine(b, pos) ==
    LET feeds == {j \in pos..Len(b) : b[j] = LF}
    IN  IF feeds = {} THEN [line |-> <<>>, err |-> ErrUnexpectedEOF, pos |-> 0]
        ELSE LET j == CHOOSE k \in feeds : \A l \in feeds : k <= l
             IN  IF j - pos + 1 < 2 \/ b[j - 1] # CR
                 THEN [line |-> <<>>, err |-> ErrInvalidFormat, pos |-> 0]
                 ELSE [line |-> SubSeq(b, pos, j - 2), err |-> "", pos |-> j + 1]

parseSimpleString(b, pos) ==
    LET l == readLine(b, pos)
    IN  IF l.err # "" THEN Failed(l.err)
        ELSE Parsed([ZeroValue EXCEPT !.type = TypeSimpleString, !.str = l.line], l.pos)

parseError(b, pos) ==
    LET l == readLine(b, pos)
    IN  IF l.err # "" THEN Failed(l.err)
        ELSE Parsed([ZeroValue EXCEPT !.type = TypeError, !.str = l.line], l.pos)

parseInteger(b, pos) ==
    LET l == readLine(b, pos)
    IN  IF l.err # "" THEN Failed(l.err)
        ELSE LET a == strconvAtoi(l.line)
             IN  IF ~a.ok THEN Failed(ErrInvalidInteger)
                 ELSE Parsed([ZeroValue EXCEPT !.type = TypeInteger, !.num = a.n], l.pos)

parseBulkString(b, pos) ==
    LET l == readLine(b, pos)
    IN  IF l.err # "" THEN Failed(l.err)
        ELSE LET a == strconvAtoi(l.line)
                 length == a.n
             IN  IF ~a.ok THEN Failed(ErrInvalidLength)
                 ELSE IF length = -1
                 THEN Parsed([ZeroValue EXCEPT !.type = TypeBulkString, !.null = TRUE], l.pos)
                 ELSE IF length < 0 THEN Failed(ErrInvalidLength)
                 ELSE IF l.pos + length + 1 > Len(b) THEN Failed(ErrUnexpectedEOF)
                 ELSE IF b[l.pos + length] # CR \/ b[l.pos + length + 1] # LF
                 THEN Failed(ErrInvalidFormat)
                 ELSE Parsed([ZeroValue EXCEPT !.type = TypeBulkString,
                                               !.str = SubSeq(b, l.pos, l.pos + length - 1)],
                             l.pos + length + 2)

\* Parse from position pos of the bytes b, and the loop of parseArray that
\* parses the elements left after array.
RECURSIVE Parse(_, _), parseElements(_, _, _, _)
parseElements(b, pos, left, array) ==
    IF left = 0
    THEN Parsed([ZeroValue EXCEPT !.type = TypeArray, !.array = array], pos)
    ELSE LET val == Parse(b, pos)
         IN  IF val.err # "" THEN Failed(val.err)
             ELSE parseElements(b, val.pos, left - 1, Append(array, val.value))

parseArray(b, pos) ==
    LET l == readLine(b, pos)
    IN  IF l.err # "" THEN Failed(l.err)
        ELSE LET a == strconvAtoi(l.line)
                 count == a.n
             IN  IF ~a.ok THEN Failed(ErrInvalidLength)
                 ELSE IF count = -1
                 THEN Parsed([ZeroValue EXCEPT !.type = TypeArray, !.null = TRUE], l.pos)
                 ELSE IF count < 0 THEN Failed(ErrInvalidLength)
                 ELSE parseElements(b, l.pos, count, <<>>)

Parse(b, pos) ==
    IF pos > Len(b) THEN Failed(ErrUnexpectedEOF)
    ELSE LET typeByte == b[pos]
         IN  CASE typeByte = TypeSimpleString -> parseSimpleString(b, pos + 1)
               [] typeByte = TypeError -> parseError(b, pos + 1)
               [] typeByte = TypeInteger -> parseInteger(b, pos + 1)
               [] typeByte = TypeBulkString -> parseBulkString(b, pos + 1)
               [] typeByte = TypeArray -> parseArray(b, pos + 1)
               [] OTHER -> Failed(ErrInvalidType)

RECURSIVE Serialize(_), SerializeAll(_, _)
SerializeAll(array, i) ==
    IF i > Len(array) THEN <<>>
    ELSE Serialize(array[i]) \o SerializeAll(array, i + 1)

Serialize(v) ==
    CASE v.type = TypeSimpleString -> <<"+">> \o v.str \o <<CR, LF>>
      [] v.type = TypeError -> <<"-">> \o v.str \o <<CR, LF>>
      [] v.type = TypeInteger -> <<":">> \o FormatInt(v.num) \o <<CR, LF>>
      [] v.type = TypeBulkString ->
            IF v.null THEN <<"$", "-", "1", CR, LF>>
            ELSE <<"$">> \o FormatInt(Len(v.str)) \o <<CR, LF>> \o v.str \o <<CR, LF>>
      [] v.type = TypeArray ->
            IF v.null THEN <<"*", "-", "1", CR, LF>>
            ELSE <<"*">> \o FormatInt(Len(v.array)) \o <<CR, LF>> \o SerializeAll(v.array, 1)
      [] OTHER -> <<>>


(***************************************************************************)
(* The codec in both directions (SpecResp): a peer writes bytes, Parse     *)
(* reads one value from them and Serialize encodes it again; or a Value is *)
(* serialized and Parse reads it back.                                     *)
(***************************************************************************)
Chunks == {<<"+">>, <<"-">>, <<":">>, <<"$">>, <<"*">>, <<"0">>, <<"1">>, <<LF>>, <<CR, LF>>}

StrContents == {<<>>, <<"1">>, <<CR, LF>>}
Nums == {-1, 0, 10}

Scalars ==
    {[ZeroValue EXCEPT !.type = t, !.str = str] :
        t \in {TypeSimpleString, TypeError, TypeBulkString}, str \in StrContents}
    \cup {[ZeroValue EXCEPT !.type = TypeInteger, !.num = n] : n \in Nums}
    \cup {[ZeroValue EXCEPT !.type = TypeBulkString, !.null = TRUE]}

ArraysOf(elements, n) ==
    {[ZeroValue EXCEPT !.type = TypeArray, !.array = a] :
        a \in UNION {[1..k -> elements] : k \in 0..n}}

FlatArrays ==
    ArraysOf(Scalars, MaxArray) \cup {[ZeroValue EXCEPT !.type = TypeArray, !.null = TRUE]}

Values == Scalars \cup FlatArrays \cup ArraysOf(FlatArrays, 1)

\* The peer writes chunk to the connection.
Feed(chunk) ==
    /\ source = NoValue
    /\ Len(wire) + Len(chunk) <= MaxWire
    /\ wire' = wire \o chunk
    /\ parsed' = NotParsed
    /\ encoded' = NotEncoded
    /\ UNCHANGED <<storeVars, now, reply, pc, txVars, snapVars, waitVars, psVars, srvVars, sweepVars, setLockVars, shadow, moreVars, source>>

\* v.Serialize() is written to an empty buffer.
SerializeValue(v) ==
    /\ source = NoValue /\ wire = <<>>
    /\ source' = v
    /\ wire' = Serialize(v)
    /\ UNCHANGED <<storeVars, now, reply, pc, txVars, snapVars, waitVars, psVars, srvVars, sweepVars, setLockVars, shadow, moreVars,
                   parsed, encoded>>

\* Parse(reader) on the bytes.
Decode ==
    /\ parsed = NotParsed
    /\ wire # <<>> \/ source # NoValue
    /\ parsed' = Parse(wire, 1)
    /\ UNCHANGED <<storeVars, now, reply, pc, txVars, snapVars, waitVars, psVars, srvVars, sweepVars, setLockVars, shadow, moreVars,
                   wire, source, encoded>>

\* parsed.Serialize() on the value Parse returned.
Reencode ==
    /\ parsed # NotParsed /\ parsed.err = ""
    /\ encoded = NotEncoded
    /\ encoded' = Serialize(parsed.value)
    /\ UNCHANGED <<storeVars, now, reply, pc, txVars, snapVars, waitVars, psVars, srvVars, sweepVars, setLockVars, shadow, moreVars,
                   wire, source, parsed>>

InitResp == Init

NextResp ==
    \/ \E chunk \in Chunks : Feed(chunk)
    \/ \E v \in Values : SerializeValue(v)
    \/ Decode
    \/ Reencode

SpecResp == InitResp /\ [][NextResp]_vars

\* C23: for every well-formed RESP byte stream, decoding one value and
\* re-encoding it produces output byte-identical to the bytes decoded.
C23_DecodeThenEncodeIsIdentity ==
    encoded # NotEncoded => encoded = SubSeq(wire, 1, parsed.pos - 1)

\* C24: for every constructible Value (each of the five kinds, any string
\* content, any integer, null or not, nested arrays), parsing the bytes that
\* Serialize produced yields a value equal to the original.
C24_EncodeThenDecodeIsIdentity ==
    (source # NoValue /\ parsed # NotParsed) =>
        (parsed.err = "" /\ parsed.value = source)


(***************************************************************************)
(* The string store's cleanup goroutine and Close (SpecClose).  Every      *)
(* critical section of memoryStore.mu is one step.                         *)
(***************************************************************************)
\* Close, under the mutex: return if stopped, else set stopped.
CloseLock(k) ==
    /\ closer[k].step = ""
    /\ IF stopped
       THEN /\ closer' = [closer EXCEPT ![k].returned = TRUE]
            /\ UNCHANGED stopped
       ELSE /\ stopped' = TRUE
            /\ closer' = [closer EXCEPT ![k].step = "close"]
    /\ UNCHANGED <<storeVars, now, reply, pc, txVars, snapVars, waitVars, psVars, srvVars,
                   setLockVars, shadow, moreVars, respVars, doneClosed, sweeper, tick>>

\* Close, after the mutex: close(s.done), which panics on a closed channel.
CloseDone(k) ==
    /\ closer[k].step = "close"
    /\ doneClosed' = TRUE
    /\ closer' = [closer EXCEPT ![k] = [step |-> "", returned |-> ~doneClosed, panic |-> doneClosed]]
    /\ UNCHANGED <<storeVars, now, reply, pc, txVars, snapVars, waitVars, psVars, srvVars,
                   setLockVars, shadow, moreVars, respVars, stopped, sweeper, tick>>

\* The ticker of cleanupLoop fires; its channel holds one tick.
TickerFire ==
    /\ sweeper.step # "returned"
    /\ ~tick
    /\ tick' = TRUE
    /\ UNCHANGED <<storeVars, now, reply, pc, txVars, snapVars, waitVars, psVars, srvVars,
                   setLockVars, shadow, moreVars, respVars, stopped, doneClosed, closer, sweeper>>

\* The select of cleanupLoop takes the case <-s.done.
SelectDone ==
    /\ sweeper.step = "select"
    /\ doneClosed
    /\ sweeper' = [sweeper EXCEPT !.step = "returned"]
    /\ UNCHANGED <<storeVars, now, reply, pc, txVars, snapVars, waitVars, psVars, srvVars,
                   setLockVars, shadow, moreVars, respVars, stopped, doneClosed, closer, tick>>

\* The select of cleanupLoop takes the case <-ticker.C: when both cases can
\* proceed, the choice between them is not determined.
SelectTick ==
    /\ sweeper.step = "select"
    /\ sweeper.sweeps < MaxSweeps
    /\ tick
    /\ tick' = FALSE
    /\ sweeper' = [sweeper EXCEPT !.step = "sweep"]
    /\ UNCHANGED <<storeVars, now, reply, pc, txVars, snapVars, waitVars, psVars, srvVars,
                   setLockVars, shadow, moreVars, respVars, stopped, doneClosed, closer>>

\* removeExpired, called by cleanupLoop.
SweeperSweep ==
    /\ sweeper.step = "sweep"
    /\ strData' = removeExpired(strData, now)
    /\ sweeper' = [step |-> "select", sweeps |-> sweeper.sweeps + 1]
    /\ UNCHANGED <<listData, hashData, setData, now, reply, pc, txVars, snapVars, waitVars,
                   psVars, srvVars, setLockVars, shadow, moreVars, respVars, stopped, doneClosed, closer, tick>>

InitClose == Init

NextClose ==
    \/ \E args \in TTLSetArgs : DoSet(args)
    \/ Tick
    \/ \E k \in Closers : CloseLock(k)
    \/ \E k \in Closers : CloseDone(k)
    \/ TickerFire
    \/ SelectDone
    \/ SelectTick
    \/ SweeperSweep

SpecClose == InitClose /\ [][NextClose]_vars

\* C25: Close halts the background sweeper and is idempotent: any number of
\* Close calls, one after the other or at the same time, complete without
\* error, and once a Close call has returned the sweeper starts no sweep.
C25_CloseStopsSweeper ==
    [][/\ \A k \in Closers : ~closer'[k].panic
       /\ (\E k \in Closers : closer[k].returned) =>
              ~(sweeper.step = "select" /\ sweeper'.step = "sweep")]_vars


(***************************************************************************)
(* SInter next to SAdd and SRem on the set store (SpecSInter).  The        *)
(* RWMutex of MemorySetStore is modelled; SInter is split into the steps   *)
(* it takes while it holds the read lock.                                  *)
(***************************************************************************)
OtherFrame == <<strData, listData, hashData, now, reply, pc, txVars, snapVars, waitVars,
                psVars, srvVars, respVars, sweepVars, shadow, moreVars>>

\* s.data[key], the nil map for an absent key.
SetAt(d, key) == IF key \in DOMAIN d THEN d[key] ELSE {}

\* The intersection of the contents of the sets at keys, as the store is.
Intersection(d, keys) ==
    IF Len(keys) = 0 \/ \E i \in 1..Len(keys) : keys[i] \notin DOMAIN d THEN {}
    ELSE {member \in Vals : \A i \in 1..Len(keys) : member \in d[keys[i]]}

RLock(r) ==
    /\ setMu.writer = ""
    /\ setMu' = [setMu EXCEPT !.readers = @ \cup {r}]

Lock_OverReaders(w) ==
    /\ setMu.writer = ""
    /\ setMu' = [setMu EXCEPT !.writer = w]
Lock(w) ==
    /\ setMu.writer = "" /\ setMu.readers = {}
    /\ setMu' = [setMu EXCEPT !.writer = w]

\* SInter(keys...) takes the read lock and returns at once for no keys.
SInterRLock(r, keys) ==
    /\ sinter[r].step \in {"", "returned"}
    /\ RLock(r)
    /\ sinter' = [sinter EXCEPT ![r] =
                    [NotReading EXCEPT !.step = IF Len(keys) = 0 THEN "return" ELSE "check",
                                       !.keys = keys,
                                       !.instants = {Intersection(setData, keys)}]]
    /\ UNCHANGED <<OtherFrame, setData, mutator>>

\* The loop that returns the empty result if a key does not exist.
SInterExists(r) ==
    /\ sinter[r].step = "check"
    /\ sinter' = [sinter EXCEPT ![r].step =
                    IF \E i \in 1..Len(sinter[r].keys) : sinter[r].keys[i] \notin DOMAIN setData
                    THEN "return" ELSE "smallest"]
    /\ UNCHANGED <<OtherFrame, setData, setMu, mutator>>

\* The loop that finds the smallest set, whose members are then ranged over.
SInterSmallest(r) ==
    /\ sinter[r].step = "smallest"
    /\ LET keys == sinter[r].keys
           sizes == [i \in 1..Len(keys) |-> Cardinality(SetAt(setData, keys[i]))]
           idx == CHOOSE i \in 1..Len(keys) :
                      /\ \A j \in 1..Len(keys) : sizes[i] <= sizes[j]
                      /\ \A j \in 1..(i - 1) : sizes[j] > sizes[i]
       IN  sinter' = [sinter EXCEPT ![r].step = "members",
                                    ![r].smallestIdx = idx,
                                    ![r].todo = SetAt(setData, keys[idx])]
    /\ UNCHANGED <<OtherFrame, setData, setMu, mutator>>

\* One iteration of the loop over the members of the smallest set.
SInterMember(r) ==
    /\ sinter[r].step = "members"
    /\ IF sinter[r].todo = {}
       THEN sinter' = [sinter EXCEPT ![r].step = "return"]
       ELSE \E member \in sinter[r].todo :
               LET keys == sinter[r].keys
                   inAll == \A i \in 1..Len(keys) :
                                i = sinter[r].smallestIdx \/ member \in SetAt(setData, keys[i])
               IN  sinter' = [sinter EXCEPT
                                ![r].todo = @ \ {member},
                                ![r].result = IF inAll THEN @ \cup {member} ELSE @]
    /\ UNCHANGED <<OtherFrame, setData, setMu, mutator>>

\* SInter returns; the deferred RUnlock runs.
SInterReturn(r) ==
    /\ sinter[r].step = "return"
    /\ setMu' = [setMu EXCEPT !.readers = @ \ {r}]
    /\ sinter' = [sinter EXCEPT ![r].step = "returned"]
    /\ UNCHANGED <<OtherFrame, setData, mutator>>

\* SAdd or SRem takes the write lock.
MutatorLock(w, op, key, members) ==
    /\ mutator[w].step = ""
    /\ Lock(w)
    /\ mutator' = [mutator EXCEPT ![w] =
                     [step |-> "locked", op |-> op, key |-> key, members |-> members]]
    /\ UNCHANGED <<OtherFrame, setData, sinter>>

\* SAdd or SRem changes the store and returns; the deferred Unlock runs.
\* Every SInter call in progress has one more instant to be compared with.
MutatorApply(w) ==
    /\ mutator[w].step = "locked"
    /\ LET m == mutator[w]
           d == IF m.op = "SADD" THEN SAdd(setData, m.key, m.members).data
                ELSE SRem(setData, m.key, m.members).data
       IN  /\ setData' = d
           /\ sinter' = [r \in SetReaders |->
                            IF sinter[r].step \in {"", "returned"} THEN sinter[r]
                            ELSE [sinter[r] EXCEPT
                                    !.instants = @ \cup {Intersection(d, sinter[r].keys)}]]
    /\ setMu' = [setMu EXCEPT !.writer = ""]
    /\ mutator' = [mutator EXCEPT ![w] = NotMutating]
    /\ UNCHANGED OtherFrame

SInterKeys == {<<>>, <<"x">>, <<"x", "y">>}
MutatorMembers == {<<"a">>, <<"b">>}

InitSInter == Init

NextSInter ==
    \/ \E r \in SetReaders, keys \in SInterKeys : SInterRLock(r, keys)
    \/ \E r \in SetReaders : SInterExists(r)
    \/ \E r \in SetReaders : SInterSmallest(r)
    \/ \E r \in SetReaders : SInterMember(r)
    \/ \E r \in SetReaders : SInterReturn(r)
    \/ \E w \in SetMutators, op \in {"SADD", "SREM"}, key \in Keys, members \in MutatorMembers :
          MutatorLock(w, op, key, members)
    \/ \E w \in SetMutators : MutatorApply(w)

SpecSInter == InitSInter /\ [][NextSInter]_vars

\* C26: the result of SInter over keys k1..kn is the intersection of those
\* sets' contents as they were at one single instant of the call (empty for
\* an absent key or no keys), whatever SAdd and SRem calls run next to it.
C26_SInterIsOneInstant ==
    \A r \in SetReaders :
        sinter[r].step = "returned" => sinter[r].result \in sinter[r].instants

\* A SInter over two keys has returned both members while a mutator changed
\* the sets after it: the store no longer holds that intersection.
C26_Witness ==
    \E r \in SetReaders :
        /\ sinter[r].step = "returned"
        /\ sinter[r].keys = <<"x", "y">>
        /\ sinter[r].result = {"a", "b"}
        /\ Intersection(setData, sinter[r].keys) # sinter[r].result
        /\ \E w \in SetMutators : mutator[w].step = "locked"


(***************************************************************************)
(* The commands that store an expiry, with every kind of seconds argument  *)
(* that strconv.Atoi accepts (SpecExpiry).                                 *)
(***************************************************************************)
ExpirySetArgs ==
    {<<key, "a">> : key \in Keys}
    \cup {<<key, "a", "EX", secs>> : key \in Keys, secs \in {"-1", "0", "1", "abc"}}

ExpiryExpireArgs == {<<key, secs>> : key \in Keys, secs \in {"0", "1", "abc"}}

InitExpiry == Init

NextExpiry ==
    \/ \E args \in ExpirySetArgs : DoSet(args)
    \/ \E args \in ExpiryExpireArgs : DoExpire(args)
    \/ Tick

SpecExpiry == InitExpiry /\ [][NextExpiry]_vars

\* C27: every string entry stored with an expiry has that expiry strictly in
\* the future at the moment it is stored, for SET ... EX and for EXPIRE and
\* for every integer argument the handler accepts.
C27_StoredExpiryIsInTheFuture ==
    [][\A key \in DOMAIN strData' :
          ((key \notin DOMAIN strData \/ strData'[key] # strData[key])
              /\ strData'[key].expiresAt # ZeroTime) =>
          strData'[key].expiresAt > now]_vars


(***************************************************************************)
(* The string store with and without its sweeper (SpecSweep): strData is   *)
(* swept at any moment, shadow is given the same calls and never swept.    *)
(***************************************************************************)
SweepFrame == <<listData, hashData, setData, now, reply, pc, txVars, snapVars, waitVars,
                psVars, srvVars, respVars, sweepVars, setLockVars, moreVars>>

StrSet(key, value) ==
    /\ strData' = Set(strData, key, value)
    /\ shadow' = Set(shadow, key, value)
    /\ UNCHANGED SweepFrame

StrSetWithTTL(key, value, ttl) ==
    /\ strData' = SetWithTTL(strData, key, value, ttl, now)
    /\ shadow' = SetWithTTL(shadow, key, value, ttl, now)
    /\ UNCHANGED SweepFrame

StrGet(key) ==
    /\ strData' = Get(strData, key, now).data
    /\ shadow' = Get(shadow, key, now).data
    /\ UNCHANGED SweepFrame

StrDelete(key) ==
    /\ strData' = Delete(strData, key).data
    /\ shadow' = Delete(shadow, key).data
    /\ UNCHANGED SweepFrame

InitSweep == Init

NextSweep ==
    \/ \E key \in Keys, value \in Vals : StrSet(key, value)
    \/ \E key \in Keys, value \in Vals : StrSetWithTTL(key, value, Second)
    \/ \E key \in Keys : StrGet(key)
    \/ \E key \in Keys : StrDelete(key)
    \/ Sweep
    \/ Tick

SpecSweep == InitSweep /\ [][NextSweep]_vars

\* C28: after any sequence of string-store operations, every operation (Get,
\* Delete, TTL, Keys) returns the same on the store whose sweeper ran in
\* between as on the store that was never swept; in particular Delete
\* reports whether the key existed, as Get observes it, when it is removed.
C28_SweeperIsInvisible ==
    /\ StoreKeys(strData, now) = StoreKeys(shadow, now)
    /\ \A key \in Keys :
          /\ Get(strData, key, now).ok = Get(shadow, key, now).ok
          /\ Get(strData, key, now).value = Get(shadow, key, now).value
          /\ TTL(strData, key, now) = TTL(shadow, key, now)
          /\ Delete(strData, key).ret = Delete(shadow, key).ret
          /\ Delete(strData, key).ret = Get(strData, key, now).ok


(***************************************************************************)
(* What a background save writes (SpecSnapshot).                           *)
(***************************************************************************)

\* C29: the snapshot written by a background save contains exactly the store
\* state gathered before BackgroundSave returned to its caller: a mutation
\* performed after BackgroundSave has returned is never in that save's file.
C29_BackgroundSaveWritesStateAtReturn ==
    [][(writer["bgsave"].step = "rename" /\ WsRename("bgsave", TRUE)) =>
          /\ saved.any
          /\ files'[snapshotPath].complete
          /\ \E order \in SetOrders(saved.st.set) :
                files'[snapshotPath].data = createSnapshot(saved.st, saved.t, order)]_vars

\* A background save has just renamed its file into place, the file holds
\* the state BackgroundSave returned with, and the store was changed since.
C29_Witness ==
    /\ writer["bgsave"].step = "return" /\ writer["bgsave"].err = ""
    /\ saved.any
    /\ files[snapshotPath].complete
    /\ \E order \in SetOrders(saved.st.set) :
          files[snapshotPath].data = createSnapshot(saved.st, saved.t, order)
    /\ strData # saved.st.str


(***************************************************************************)
(* IsSaving while a background save is unobserved (SpecSaving).            *)
(***************************************************************************)

\* IsSaving: Lock, return m.saving, Unlock.  The call waits for the mutex,
\* which the goroutine of a background save holds for its whole write.
IsSaving ==
    /\ mu = "-"
    /\ result' = [call |-> "IsSaving", err |-> "", value |-> saving]
    /\ UNCHANGED <<storeVars, now, reply, pc, txVars, files, mu, saving,
                   saveDone, writer, extVars>>

InitSaving == Init

NextSaving ==
    \/ NextWait
    \/ IsSaving

SpecSaving == InitSaving /\ [][NextSaving]_vars

\* The latest BackgroundSave call has returned nil to its caller and no
\* WaitForSave has received that save's result yet.
Unobserved ==
    /\ saveDone # NilChan
    /\ writer["bgsave"].step # "snapshot"
    /\ ~(chans[saveDone].sent # <<>> /\ chans[saveDone].buf = <<>>)

\* C30: from the moment a BackgroundSave call returns successfully until its
\* completion has been observed through WaitForSave, IsSaving returns true
\* and a further BackgroundSave call returns ErrSaveInProgress.
C30_SavingUntilObserved ==
    [][Unobserved =>
          /\ IsSaving => result'.value = TRUE
          /\ BgSaveCall => /\ saving' = saving
                           /\ result'.err = ErrSaveInProgress]_vars


(***************************************************************************)
(* What is left running when Stop has returned (SpecServer).               *)
(***************************************************************************)

\* C31: when Stop has returned no connection task is running and none can
\* start afterwards: every connection the accept loop has accepted was
\* registered with the wait group before Stop's wait completed and its
\* handler has finished.
C31_NoTaskAfterStop ==
    stopping = "returned" =>
        \A c \in Clients : conn[c].task \in {"none", "done"}


(***************************************************************************)
(* SpecOrder: one publisher whose publications carry their number, s1      *)
(* subscribing to channels and unsubscribing, s2 subscribing to patterns,  *)
(* and their connections taking what the Messages channels yield.          *)
(***************************************************************************)
\* The payload of the publisher's k-th publication, and k of the payload.
PayloadNames == <<"m1", "m2", "m3", "m4", "m5">>
PubIndex(payload) == CHOOSE k \in 1..Len(PayloadNames) : PayloadNames[k] = payload

IsData(msg) == msg.Type \in {"message", "pmessage"}

\* What the steps of the publisher and of the consumers leave alone, next
\* to the variables of the bus.
OrderFrame == <<storeVars, now, reply, pc, txVars, snapVars, waitVars, srvVars,
                respVars, sweepVars, setLockVars, shadow, confirmed, stale,
                reentryVars>>

\* The publisher calls Publish and waits for it to return before it calls
\* the next.
PublishNext_Detached(channel) ==
    /\ published < MaxPublished
    /\ published' = published + 1
    /\ \E k \in 1..(published + 1), porder \in Orderings(DOMAIN subs.patterns) :
           Messages' = Publish(subs, Messages, channel, PayloadNames[k], porder).q
    /\ UNCHANGED <<OrderFrame, subs, yielded>>
PublishNext(channel) ==
    /\ published < MaxPublished
    /\ published' = published + 1
    /\ \E porder \in Orderings(DOMAIN subs.patterns) :
           Messages' = Publish(subs, Messages, channel,
                               PayloadNames[published + 1], porder).q
    /\ UNCHANGED <<OrderFrame, subs, yielded>>

\* The subscriber's connection receives from sub.Messages: the channel
\* yields its oldest message.
Yield(sub) ==
    /\ Messages[sub] # <<>>
    /\ Messages' = [Messages EXCEPT ![sub] = Tail(@)]
    /\ yielded' = [yielded EXCEPT ![sub] =
                      IF IsData(Head(Messages[sub]))
                      THEN PubIndex(Head(Messages[sub]).Payload)
                      ELSE @]
    /\ UNCHANGED <<OrderFrame, subs, published>>

InitOrder == Init

NextOrder ==
    \/ \E channels \in SubscribeArgs : DoSubscribe("s1", channels)
    \/ \E channels \in UnsubscribeArgs : DoUnsubscribe("s1", channels)
    \/ \E pats \in PSubscribeArgs : DoPSubscribe("s2", pats)
    \/ \E channel \in Channels : PublishNext(channel)
    \/ \E sub \in Subscribers : Yield(sub)

SpecOrder == InitOrder /\ [][NextOrder]_vars

\* The numbers of the publications whose messages wait in the queue of sub,
\* oldest first.
RECURSIVE Waiting(_)
Waiting(q) ==
    IF q = <<>> THEN <<>>
    ELSE IF IsData(Head(q)) THEN <<PubIndex(Head(q).Payload)>> \o Waiting(Tail(q))
    ELSE Waiting(Tail(q))

ConfirmFrame == <<storeVars, now, reply, pc, txVars, snapVars, waitVars, srvVars,
                  respVars, sweepVars, setLockVars, shadow, orderVars, stale,
                  reentryVars>>

\* The bus and the queues become those of r, the result of an operation of
\* sub; the confirmations the operation sent are what it added to the queue
\* of sub.
Confirms(sub, r) ==
    /\ subs' = r.ps
    /\ Messages' = r.q
    /\ confirmed' = [confirmed EXCEPT ![sub] =
                        IF Len(r.q[sub]) > Len(Messages[sub])
                        THEN r.q[sub][Len(r.q[sub])].Count
                        ELSE @]
    /\ UNCHANGED ConfirmFrame

SubscribeCall(sub, channels) ==
    \E r \in {Subscribe(subs, Messages, sub, channels)} : Confirms(sub, r)

UnsubscribeCall(sub, channels) ==
    \E all \in Orderings(ChannelsOf(subs, sub)) :
        Confirms(sub, Unsubscribe(subs, Messages, sub, channels, all))

PSubscribeCall(sub, pats) ==
    \E r \in {PSubscribe(subs, Messages, sub, pats)} : Confirms(sub, r)

PUnsubscribeCall(sub, pats) ==
    \E all \in Orderings(PatternsOf(subs, sub)) :
        Confirms(sub, PUnsubscribe(subs, Messages, sub, pats, all))

InitConfirm == Init

NextConfirm ==
    \/ \E channels \in SubscribeArgs : SubscribeCall("s1", channels)
    \/ \E channels \in UnsubscribeArgs : UnsubscribeCall("s1", channels)
    \/ \E pats \in PSubscribeArgs : PSubscribeCall("s1", pats)
    \/ \E pats \in PUnsubscribeArgs : PUnsubscribeCall("s1", pats)
    \/ \E channel \in Channels, message \in Payloads : DoPublish(channel, message)
    \/ Consume("s1")

SpecConfirm == InitConfirm /\ [][NextConfirm]_vars

\* C33: after any sequence of SUBSCRIBE, UNSUBSCRIBE, PSUBSCRIBE and
\* PUNSUBSCRIBE by one subscriber, the count in the last confirmation it was
\* given (the sum of the deltas of the counts of all of them) is the number
\* of channels and patterns it holds.
C33_LastConfirmationCountsSubscriptions ==
    confirmed["s1"] = subscriptionCount(subs, "s1")


(***************************************************************************)
(* The two indices of the bus (SpecPubSub).                                *)
(***************************************************************************)

\* C34: after any sequence of Subscribe, Unsubscribe, PSubscribe and
\* PUnsubscribe calls of any subscribers the forward and the reverse index
\* agree: sub is in the subscriber set of a channel exactly when the channel
\* is in the channel set of sub, likewise for patterns, and no channel or
\* pattern is kept with an empty subscriber set.
C34_IndicesAgree ==
    /\ \A sub \in Subscribers, channel \in Channels :
           (channel \in DOMAIN subs.channels /\ sub \in subs.channels[channel])
               <=> channel \in ChannelsOf(subs, sub)
    /\ \A sub \in Subscribers, pattern \in Patterns :
           (pattern \in DOMAIN subs.patterns /\ sub \in subs.patterns[pattern])
               <=> pattern \in PatternsOf(subs, sub)
    /\ DOMAIN subs.channels \subseteq Channels
    /\ DOMAIN subs.patterns \subseteq Patterns
    /\ \A channel \in DOMAIN subs.channels : subs.channels[channel] # {}
    /\ \A pattern \in DOMAIN subs.patterns : subs.patterns[pattern] # {}

\* Both subscribers had subscribed to channel a and s1 has unsubscribed from
\* it, the last of its channels, while it keeps a pattern: the confirmation
\* is on its queue, and a is left with s2.
C34_Witness ==
    /\ Messages["s1"] = <<Message("unsubscribe", "a", "", "", 1)>>
    /\ subs.channels = [c \in {"a"} |-> {"s2"}]
    /\ PatternsOf(subs, "s1") # {}
    /\ ChannelsOf(subs, "s1") = {}


(***************************************************************************)
(* Handlers that read the string store and write it afterwards (SpecTTL).  *)
(***************************************************************************)

\* C35: a Get that found an expired entry for a key never removes a value
\* that a Set or SetWithTTL stored at the key after the Get read the expired
\* entry: the Delete that Get makes removes nothing but an expired entry.
C35_LazyDeleteRemovesOnlyExpired ==
    [][\A c \in Conns :
          (LazyDelete(c) /\ pc[c].key \in DOMAIN strData) =>
              isExpired(strData[pc[c].key], now)]_vars

\* C36: EXPIRE changes only the expiry of its key: when it stores the entry
\* with its new expiry, the key holds the value EXPIRE read, so that it
\* neither writes back a value that a SET completed in the meantime has
\* replaced nor re-creates a key that a DEL completed in the meantime has
\* removed.
C36_ExpireChangesOnlyExpiry ==
    [][\A c \in Conns :
          ExpireFinish(c) =>
              /\ pc[c].key \in DOMAIN strData
              /\ strData'[pc[c].key].value = strData[pc[c].key].value]_vars


(***************************************************************************)
(* A Save next to a background save that has not written yet               *)
(* (SpecSnapshot).                                                         *)
(***************************************************************************)

\* C37: once a Save has returned nil, the snapshot file is never afterwards
\* replaced by a snapshot whose store state was gathered before that Save
\* gathered its own, such as that of a background save started earlier that
\* had not written yet.
C37_NoOlderSnapshotAfterSave ==
    [][WsRename("bgsave", TRUE) => stale # "yes"]_vars


(***************************************************************************)
(* SpecTypeCheck: the write handlers of the list, hash and set commands of *)
(* two connections step by step, next to SET and DEL.  A handler looks the *)
(* key up in the string store (one locked store call) and, when the key is *)
(* not there, calls its own store afterwards (another).                    *)
(***************************************************************************)
WriteCommands == {"LPUSH", "RPUSH", "HSET", "SADD"}

\* HandleLPush, HandleRPush, HandleHSet, handleSAdd up to the return of the
\* type check: WRONGTYPE when the string store holds the key.
WriteCheck(c, op, key, value) ==
    /\ pc[c] = Idle
    /\ key \in DOMAIN listData => Len(listData[key]) < MaxListLen
    /\ LET chk == checkType(strData, key, now)
       IN  /\ strData' = chk.data
           /\ IF chk.ok
              THEN reply' = respError(wrongTypeError) /\ UNCHANGED pc
              ELSE pc' = At(c, op, "write", key, value, 0) /\ UNCHANGED reply
    /\ UNCHANGED <<listData, hashData, setData, now, txVars, snapVars, extVars>>

\* The handler's call of its store, LPush, RPush, HSet or SAdd, and its
\* reply.
WriteFinish(c) ==
    /\ pc[c].step = "write" /\ pc[c].op \in WriteCommands
    /\ LET key == pc[c].key
           r == CASE pc[c].op = "LPUSH" -> LPush(listData, key, <<pc[c].value>>)
                  [] pc[c].op = "RPUSH" -> RPush(listData, key, <<pc[c].value>>)
                  [] pc[c].op = "HSET" -> HSet(hashData, key, <<"f", pc[c].value>>)
                  [] OTHER -> SAdd(setData, key, <<pc[c].value>>)
       IN  /\ listData' = IF pc[c].op \in {"LPUSH", "RPUSH"} THEN r.data ELSE listData
           /\ hashData' = IF pc[c].op = "HSET" THEN r.data ELSE hashData
           /\ setData' = IF pc[c].op = "SADD" THEN r.data ELSE setData
           /\ reply' = respInteger(r.ret)
    /\ pc' = [pc EXCEPT ![c] = Idle]
    /\ UNCHANGED <<strData, now, txVars, snapVars, extVars>>

InitTypeCheck == Init

NextTypeCheck ==
    \/ \E c \in Conns, op \in WriteCommands, key \in TTLKeys, value \in Elems :
           WriteCheck(c, op, key, value)
    \/ \E c \in Conns : WriteFinish(c)
    \/ \E c \in Conns, args \in TTLSetArgs : SetCmd(c, args)
    \/ \E c \in Conns, key \in TTLKeys : DelCmd(c, key)
    \/ Tick

SpecTypeCheck == InitTypeCheck /\ [][NextTypeCheck]_vars

\* C38: when a SET of the key has completed before a list, hash or set write
\* handler modifies its store (and the string is still there), the handler
\* returns WRONGTYPE and does not modify its store, also when the commands
\* come from different connections and overlap: no handler writes its store
\* while the string store holds the key.
C38_NoWriteUnderString ==
    [][\A c \in Conns :
          WriteFinish(c) => ~Get(strData, pc[c].key, now).ok]_vars


(***************************************************************************)
(* WATCH on a key that is watched already (SpecTxEngine).                  *)
(***************************************************************************)

\* C39: watches accumulate without replacing an earlier baseline: when a
\* watched key was modified after the connection's first WATCH of it, the
\* connection's EXEC returns a null array even if the connection issues
\* WATCH on the key again between that modification and MULTI.
C39_RewatchKeepsBaseline ==
    \A c \in EngineConns, key \in Keys :
        (/\ ~tx[c].inMulti
         /\ key \in DOMAIN tx[c].watching
         /\ tx[c].watching[key] # GetVersion(versions, key))
        => LET watched == Watch(tx[c], versions, <<key>>).tx
               begun == Begin(watched).tx
           IN  HandleExec(begun, versions, <<>>, <<>>).reply = respNullArray


(***************************************************************************)
(* SpecReentry: the Exec of connection A step by step, with an executor    *)
(* that may call a method of the same Transaction while it runs a queued   *)
(* command, next to another goroutine that calls such a method.  Every     *)
(* method of Transaction locks t.mu on entry and unlocks it on return; a   *)
(* sync.Mutex is not reentrant.  The steps of Exec, of the executor and of *)
(* the methods are scheduled (weak fairness); the commands that set the    *)
(* transaction up are not.                                                 *)
(***************************************************************************)
ReentryFrame == <<storeVars, now, pc, versions, dirty, snapVars, waitVars, psVars,
                  srvVars, respVars, sweepVars, setLockVars, shadow, orderVars,
                  confirmed, stale>>

\* The methods the executor may call: InTransaction, Queue, Watch, Unwatch,
\* or none ("").
ExecutorCalls == {"", "InTransaction", "Queue", "Watch", "Unwatch"}

\* MULTI and a command queued, while the connection is not in Exec.
SetUpMulti(c) ==
    /\ execPos.step = "" /\ txMu = "-"
    /\ TxMulti(c)

SetUpQueue(c, cmd, args) ==
    /\ execPos.step = "" /\ txMu = "-"
    /\ TxQueue(c, cmd, args)

\* Exec: t.mu.Lock(), with its unlock deferred; the transaction is in MULTI
\* and watches nothing, so the loop over the queue follows.
ExecLock(c) ==
    /\ execPos.step = "" /\ txMu = "-"
    /\ tx[c].inMulti
    /\ txMu' = "Exec"
    /\ execPos' = [step |-> "loop", i |-> 1]
    /\ UNCHANGED <<ReentryFrame, tx, reply, invoked, caller>>

\* Exec's loop calls the executor on the queued command at i.  The executor
\* returns, or it calls a method of the Transaction first and is then in
\* that method's t.mu.Lock().
ExecutorRun(c, call) ==
    /\ execPos.step = "loop"
    /\ execPos.i <= Len(tx[c].queue)
    /\ IF call = ""
       THEN execPos' = [execPos EXCEPT !.i = @ + 1] /\ UNCHANGED caller
       ELSE /\ execPos' = [execPos EXCEPT !.step = "executor"]
            /\ caller' = [caller EXCEPT !["executor"] = "waiting"]
    /\ UNCHANGED <<ReentryFrame, tx, reply, invoked, txMu>>

\* Exec after the loop: resetLocked, the deferred unlock, the results.
ExecReturn(c) ==
    /\ execPos.step = "loop"
    /\ execPos.i > Len(tx[c].queue)
    /\ LET r == HandleExec(tx[c], versions, <<>>, MockOutcomes(tx[c].queue))
       IN  /\ tx' = [tx EXCEPT ![c] = r.tx]
           /\ reply' = r.reply
    /\ invoked' = tx[c].queue
    /\ txMu' = "-"
    /\ execPos' = NotInExec
    /\ UNCHANGED <<ReentryFrame, caller>>

\* Another goroutine calls InTransaction on the same Transaction.
OtherCall ==
    /\ caller["other"] = ""
    /\ caller' = [caller EXCEPT !["other"] = "waiting"]
    /\ UNCHANGED <<ReentryFrame, tx, reply, invoked, txMu, execPos>>

\* t.mu.Lock() of the method w is in returns once nobody holds the mutex.
MethodLock(w) ==
    /\ caller[w] = "waiting"
    /\ txMu = "-"
    /\ txMu' = w
    /\ caller' = [caller EXCEPT ![w] = "locked"]
    /\ UNCHANGED <<ReentryFrame, tx, reply, invoked, execPos>>

\* The method returns, unlocking; the executor then returns to Exec's loop.
MethodReturn(w) ==
    /\ caller[w] = "locked"
    /\ txMu' = "-"
    /\ caller' = [caller EXCEPT ![w] = ""]
    /\ execPos' = IF w = "executor"
                  THEN [step |-> "loop", i |-> execPos.i + 1]
                  ELSE execPos
    /\ UNCHANGED <<ReentryFrame, tx, reply, invoked>>

InitReentry == Init

NextReentry ==
    \/ SetUpMulti("A")
    \/ \E q \in QueuedCommands : SetUpQueue("A", q[1], q[2])
    \/ ExecLock("A")
    \/ \E call \in ExecutorCalls : ExecutorRun("A", call)
    \/ ExecReturn("A")
    \/ OtherCall
    \/ \E w \in Callers : MethodLock(w)
    \/ \E w \in Callers : MethodReturn(w)

SpecReentry ==
    /\ InitReentry
    /\ [][NextReentry]_vars
    /\ WF_vars(\E call \in ExecutorCalls : ExecutorRun("A", call))
    /\ WF_vars(ExecReturn("A"))
    /\ \A w \in Callers : WF_vars(MethodLock(w))
    /\ \A w \in Callers : WF_vars(MethodReturn(w))

\* C40: EXEC always terminates when the executor, while it runs a queued
\* command, queries or updates the transaction state of the same connection
\* (InTransaction, Queue, Watch, Unwatch): an Exec that has begun returns.
C40_ExecTerminates ==
    (execPos.step # "") ~> (execPos.step = "")

====
